----------------------------- MODULE Stitching -----------------------------
(***************************************************************************)
(* How the executor puts the answers of the services together: where the   *)
(* objects of a step are in the answer of the step before                  *)
(* (FindInsertionPoints), how what a service says of such an object is     *)
(* merged into it, and how ScrubFields.Clean takes out again what the      *)
(* planner had added.                                                      *)
(*                                                                         *)
(* A JSON value is a record with one field: map, list, leaf or null.  An   *)
(* insertion point is a sequence of [field, index, id], such as            *)
(* ["users:0", "boss#y"].                                                  *)
(***************************************************************************)
EXTENDS Selections

Null == [null |-> TRUE]
MapOf(f) == [map |-> f]
EmptyMap == MapOf(<<>>)
Leaf(x) == [leaf |-> x]

IsMap(v) == "map" \in DOMAIN v
IsList(v) == "list" \in DOMAIN v
HasKey(v, k) == IsMap(v) /\ k \in DOMAIN v.map
Without(v, ks) == MapOf([k \in DOMAIN v.map \ ks |-> v.map[k]])

NoIndex == -1
NoId == ""
Point(field, index, id) == [field |-> field, index |-> index, id |-> id]
-----------------------------------------------------------------------------
\* FindInsertionPoints, which is given one branch to go on from.

Failure == [ok |-> FALSE, points |-> <<>>]
Found(points) == [ok |-> TRUE, points |-> points]

\* extractID: an object without an id is an error, unless it has nothing but a
\* typename.
ID(obj) == obj.map[IDFieldName].leaf
NoIDFound(obj) ==
  IF IsMap(obj) /\ DOMAIN obj.map = {TypenameFieldName} THEN Found(<<>>) ELSE Failure

\* Mutant: the id is left out of the point.
EntryPointNoID(field, index, entry, last) == Point(field, index, NoId)

\* Mutant: entries are counted from one.
EntryPointFromOne(field, index, entry, last) ==
  Point(field, IF index = NoIndex THEN NoIndex ELSE index + 1,
        IF last THEN ID(entry) ELSE NoId)

\* Mutant: on the way, every entry is taken for the first.
EntryPointShared(field, index, entry, last) ==
  Point(field, IF index = NoIndex \/ last THEN index ELSE 0, IF last THEN ID(entry) ELSE NoId)

\* The element for one object on the way; the last one has the id.
EntryPoint(field, index, entry, last) == Point(field, index, IF last THEN ID(entry) ELSE NoId)

RECURSIVE FindInsertionPoints(_, _, _, _)
FindInsertionPoints(target, sel, result, branch) ==
  IF Len(branch) = Len(target) THEN Found(<<branch>>)
  ELSE LET point == target[Len(branch) + 1]
           last  == Len(branch) + 1 = Len(target)
           found == FindSelection(point, sel)
       IN IF found = <<>> \/ ~HasKey(result, point) THEN Found(<<>>)
          ELSE LET field == Head(found)
                   def   == Definition[field.name]
                   value == result.map[point]
                   lacksID(e) == ~IsMap(e) \/ (last /\ ~HasKey(e, IDFieldName))
                   below(e, k) ==
                     FindInsertionPoints(target, field.sel, IF IsMap(e) THEN e ELSE result,
                       Append(branch, EntryPoint(point, k, e, last)))
               IN CASE value = Null -> IF def.nonNull THEN Failure ELSE Found(<<>>)
                    [] value # Null /\ def.list ->
                         LET bad == SelectInSeq(value.list, lacksID)
                             all == [k \in DOMAIN value.list |-> below(value.list[k], k - 1)]
                         IN IF bad # 0 THEN NoIDFound(value.list[bad])
                            ELSE IF \E k \in DOMAIN all : ~all[k].ok THEN Failure
                            ELSE Found(FlattenSeq([k \in DOMAIN all |-> all[k].points]))
                    [] OTHER ->
                         IF last /\ lacksID(value) THEN NoIDFound(value)
                         ELSE below(value, NoIndex)
-----------------------------------------------------------------------------
\* Merging.

RECURSIVE MergeMaps(_, _)

\* mergeSlices: an entry goes to the one with its id, or else to its place.
MergeSlices(left, right) ==
  LET sameID(r, l) == HasKey(r, IDFieldName) /\ HasKey(l, IDFieldName) /\ ID(l) = ID(r)
      add(acc, k) ==
        LET r  == right[k]
            at == SelectInSeq(acc, LAMBDA l : sameID(r, l))
            to == IF at # 0 THEN at ELSE k
        IN IF ~IsMap(r) \/ to > Len(acc) THEN Append(acc, r)
           ELSE [acc EXCEPT ![to] = IF IsMap(@) THEN MergeMaps(@, r) ELSE r]
  IN FoldLeft(add, left, [k \in DOMAIN right |-> k])

MergeMaps(left, right) ==
  LET merged(l, r) ==
        CASE IsMap(l) /\ IsMap(r)   -> MergeMaps(l, r)
          [] IsList(l) /\ IsList(r) -> [list |-> MergeSlices(l.list, r.list)]
          [] OTHER                  -> r
  IN MapOf([k \in DOMAIN left.map \cup DOMAIN right.map |->
              IF k \notin DOMAIN right.map THEN left.map[k]
              ELSE IF k \notin DOMAIN left.map THEN right.map[k]
              ELSE merged(left.map[k], right.map[k])])

\* DepthExecutorManager.merge, at the object it has found.
MergeAnswer(target, data) ==
  LET merged(l, r) == IF IsMap(l) /\ IsMap(r) THEN MergeMaps(l, r) ELSE r
  IN MapOf([k \in DOMAIN target.map \cup DOMAIN data.map |->
              IF k \notin DOMAIN data.map THEN target.map[k]
              ELSE IF k \notin DOMAIN target.map THEN data.map[k]
              ELSE merged(target.map[k], data.map[k])])

\* The object or the list that a point goes to next, made if it is missing
\* (ExtractValueModifyingSource), and the list long enough.
ObjectAt(obj, field) ==
  IF HasKey(obj, field) /\ obj.map[field] # Null THEN obj.map[field] ELSE EmptyMap

ListAt(obj, field, index) ==
  LET list == IF HasKey(obj, field) THEN obj.map[field].list ELSE <<>>
  IN list \o [k \in 1 .. (index + 1 - Len(list)) |-> EmptyMap]

\* ExtractValueModifyingSource and merge: obj with data merged in at the point.
RECURSIVE MergeAt(_, _, _)
MergeAt(obj, point, data) ==
  IF point = <<>> THEN MergeAnswer(obj, data)
  ELSE LET p == Head(point)
           new == IF p.index = NoIndex
                  THEN MergeAt(ObjectAt(obj, p.field), Tail(point), data)
                  ELSE [list |-> [ListAt(obj, p.field, p.index) EXCEPT
                                    ![p.index + 1] = MergeAt(@, Tail(point), data)]]
       IN MapOf((p.field :> new) @@ obj.map)
-----------------------------------------------------------------------------
\* ScrubFields.Clean.

\* What is cleaned is the set of what may become of it.

Cleaned(obj) == [obj |-> obj, gone |-> obj = EmptyMap]

\* The fields added for the object's type are deleted; if it has no __typename, as
\* it may when the client has given it an alias, those for any of the types.
CleanMap(obj, scrub) ==
  LET types == IF HasKey(obj, TypenameFieldName) THEN {obj.map[TypenameFieldName].leaf}
               ELSE { s.type : s \in scrub }
  IN { Cleaned(Without(obj, { s.field : s \in { x \in scrub : x.type = type } })) : type \in types }

\* The sequences of one element of each set.
OneOfEach(sets) == { s \in [DOMAIN sets -> UNION ToSet(sets)] : \A k \in DOMAIN s : s[k] \in sets[k] }

\* clean: along the path; what is empty then is deleted from its parent.
RECURSIVE Clean(_, _, _)
Clean(obj, path, scrub) ==
  IF path = <<>> THEN CleanMap(obj, scrub)
  ELSE IF ~HasKey(obj, Head(path)) THEN {[obj |-> obj, gone |-> FALSE]}
  ELSE LET p == Head(path)
           v == obj.map[p]
           entry(e) == IF IsMap(e) THEN Clean(e, Tail(path), scrub) ELSE {[obj |-> e, gone |-> TRUE]}
           list(es) == [obj  |-> [list |-> SeqMap(LAMBDA e : e.obj, es)],
                        gone |-> es # <<>> /\ \A e \in ToSet(es) : e.gone]
           below == CASE IsMap(v)  -> Clean(v, Tail(path), scrub)
                      [] IsList(v) -> { list(es) : es \in OneOfEach(SeqMap(entry, v.list)) }
                      [] OTHER     -> {[obj |-> v, gone |-> FALSE]}
       IN { Cleaned(IF c.gone THEN Without(obj, {p}) ELSE MapOf((p :> c.obj) @@ obj.map)) : c \in below }
=============================================================================
