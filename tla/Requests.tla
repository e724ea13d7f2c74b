------------------------------ MODULE Requests ------------------------------
(***************************************************************************)
(* What requests.Parse makes of a POST: one request or a batch, and, in a  *)
(* multipart body, files that are put where the client has written null.   *)
(*                                                                         *)
(* The variables of a request are a function from paths, which are         *)
(* sequences of keys and indices, to what is there: "map", "list", "null", *)
(* "text" for any other value, or an uploaded file.                        *)
(***************************************************************************)
EXTENDS Naturals, Sequences, SequencesExt, FiniteSets, Functions

CONSTANTS
  File,             \* the uploaded files
  Absent,           \* not in the variables
  NegativeIndex     \* the parts of paths that strconv.Atoi reads as less than 0

ASSUME FileAssumption ==
  LET Kind == {"map", "list", "null", "text"}
  IN File \cap Kind = {} /\ Absent \notin File \cup Kind

At(tree, path) == IF path \in DOMAIN tree THEN tree[path] ELSE Absent
-----------------------------------------------------------------------------
\* injectFile, for one path: entry is the index it has in batch mode, or 1; root is
\* the part after that, which must be "variables" ("other" stands for anything
\* else and for an index that is no number, "none" for a path of an index alone);
\* keys are the parts after it.

\* The walk has come to the map at cur; the part after a list is its index,
\* which has been dealt with.
Start(tree) == [tree |-> tree, cur |-> <<>>, isIndex |-> FALSE, outcome |-> "ok"]

\* Mutant: whatever is at the index of a list is replaced.
StepIntoBlindly(file, keys, walk, i) ==
  LET path == Append(walk.cur, keys[i])
      val == At(walk.tree, path)
      item == Append(path, keys[i + 1])
  IN IF walk.outcome # "ok" \/ walk.isIndex
     THEN [walk EXCEPT !.isIndex = FALSE]
     ELSE CASE val = "map" -> [walk EXCEPT !.cur = path]
            [] val = "null" -> [walk EXCEPT !.tree[path] = file]
            [] val = "list" /\ i < Len(keys) /\ At(walk.tree, item) # Absent ->
                 [walk EXCEPT !.tree[item] = file, !.isIndex = TRUE]
            [] val = "list" /\ i < Len(keys) /\ keys[i + 1] \in NegativeIndex /\ At(walk.tree, item) = Absent ->
                 [walk EXCEPT !.outcome = "aborted"]
            [] OTHER -> [walk EXCEPT !.outcome = "refused"]

\* After a file has been put in its place, further parts are looked up in the
\* same map; and nothing is put anywhere if the last part names a map.  An index
\* is only compared with the length of the list: below zero it is out of range.
StepInto(file, keys, walk, i) ==
  LET path == Append(walk.cur, keys[i])
      val == At(walk.tree, path)
      item == Append(path, keys[i + 1])
  IN IF walk.outcome # "ok" \/ walk.isIndex
     THEN [walk EXCEPT !.isIndex = FALSE]
     ELSE CASE val = "map" -> [walk EXCEPT !.cur = path]
            [] val = "null" -> [walk EXCEPT !.tree[path] = file]
            [] val = "list" /\ i < Len(keys) /\ At(walk.tree, item) = "null" ->
                 [walk EXCEPT !.tree[item] = file, !.isIndex = TRUE]
            [] val = "list" /\ i < Len(keys) /\ keys[i + 1] \in NegativeIndex /\ At(walk.tree, item) = Absent ->
                 [walk EXCEPT !.outcome = "aborted"]
            [] OTHER -> [walk EXCEPT !.outcome = "refused"]

Inject(file, tree, keys) ==
  LET walk[i \in 0 .. Len(keys)] ==
        IF i = 0 THEN Start(tree) ELSE StepInto(file, keys, walk[i - 1], i)
  IN walk[Len(keys)]

\* An index without anything after it, or of no request, is out of range.
InjectPath(file, acc, path) ==
  IF acc.outcome # "ok" THEN acc
  ELSE IF path.root = "none" THEN [acc EXCEPT !.outcome = "aborted"]
  ELSE IF path.root = "other" \/ path.keys = <<>> THEN [acc EXCEPT !.outcome = "refused"]
  ELSE IF path.entry \notin DOMAIN acc.trees THEN [acc EXCEPT !.outcome = "aborted"]
  ELSE LET walk == Inject(file, acc.trees[path.entry], path.keys)
       IN IF walk.outcome = "ok" THEN [acc EXCEPT !.trees[path.entry] = walk.tree]
          ELSE [acc EXCEPT !.outcome = walk.outcome]

\* All paths of a file, one after the other: trees of the requests, and "ok",
\* "refused" with an error, or "aborted" by an index out of range, which
\* net/http recovers.
InjectFile(file, trees, paths) ==
  LET after[n \in 0 .. Len(paths)] ==
        IF n = 0 THEN [trees |-> trees, outcome |-> "ok"]
        ELSE InjectPath(file, after[n - 1], paths[n])
  IN after[Len(paths)]
-----------------------------------------------------------------------------
\* What the client means by a path: a null, in maps all the way or, at the end,
\* in a list.
IsHole(tree, keys) ==
  /\ keys # <<>>
  /\ At(tree, keys) = "null"
  /\ \A n \in 1 .. Len(keys) - 1 :
       \/ At(tree, SubSeq(keys, 1, n)) = "map"
       \/ At(tree, SubSeq(keys, 1, n)) = "list" /\ n = Len(keys) - 1

\* The walk of such a path ends at a map, or goes on behind its null.
EndsAtMap(tree, keys) == At(tree, keys) = "map"
GoesOn(tree, keys) == \E n \in 1 .. Len(keys) - 1 : IsHole(tree, SubSeq(keys, 1, n))
=============================================================================
