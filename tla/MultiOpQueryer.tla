--------------------------- MODULE MultiOpQueryer ---------------------------
(***************************************************************************)
(* queryer.MultiOpQueryer.Query (queryer/multiop_queryer.go, fetch.go): a  *)
(* batch of more than maxBatchSize inputs is cut into chunks, a goroutine  *)
(* per chunk (common.AsyncMapReduce) sends the inputs with files one by    *)
(* one and the others in one POST, and the reducer splices the chunks, in  *)
(* the order they come, into one list that the caller reads by index.      *)
(*                                                                         *)
(* Inputs are 1 .. n, and the data that answers input k is k itself.       *)
(***************************************************************************)
EXTENDS Naturals, Sequences, FiniteSets, FiniteSetsExt, SequencesExt, Enumeration

CONSTANTS
  Call,             \* the calls: [n |-> inputs, max |-> maxBatchSize, files |-> inputs with files]
  Surplus           \* bound: answers a service sends beyond those it was asked for

ASSUME CallAssumption ==
  \A c \in Call : c.n \in Nat /\ c.max \in Nat \ {0} /\ c.files \subseteq 1 .. c.n
ASSUME SurplusAssumption == Surplus \in Nat

NoData == 0         \* a nil map in the list of results

VARIABLES
  call,             \* this call
  chunk,            \* per chunk: its goroutine, what it sent and what it got
  acc,              \* the list the reducer splices
  outcome           \* "running", "done", "failed" or "panic"

vars == <<call, chunk, acc, outcome>>

\* A call within the limit is one chunk; otherwise there is one more than there
\* are full ones, with the rest of the inputs or none.
Chunks(c) == IF c.n <= c.max THEN 0 .. 0 ELSE 0 .. c.n \div c.max

\* Mutant: chunks overlap by one.
SliceOverlaps(c, i) ==
  SubSeq([k \in 1 .. c.n |-> k], i * c.max + 1, Min({(i + 1) * c.max + 1, c.n}))

\* inputs[i*max:(i+1)*max], cut off at the end.
Slice(c, i) ==
  SubSeq([k \in 1 .. c.n |-> k], i * c.max + 1, Min({(i + 1) * c.max, c.n}))

\* The inputs of chunk i with files, and the others.
FilesOf(i) ==
  Only(Slice(call, i), { p \in DOMAIN Slice(call, i) : Slice(call, i)[p] \in call.files })
ToFetch(i) ==
  Only(Slice(call, i), { p \in DOMAIN Slice(call, i) : Slice(call, i)[p] \notin call.files })

Init ==
  /\ call \in Call
  /\ chunk = [i \in Chunks(call) |->
       [at      |-> "files",
        uploads |-> 0,                            \* files sent
        post    |-> <<>>,                         \* the batch sent
        answers |-> 0,                            \* ... and how many answers came
        failure |-> FALSE,                        \* an error was answered
        results |-> [k \in DOMAIN Slice(call, i) |-> NoData]]]
  /\ acc = [k \in 1 .. call.n |-> NoData]
  /\ outcome = "running"
-----------------------------------------------------------------------------
\* queryBatch, in the goroutine of chunk i.

\* The position of input k in its chunk.
Position(i, k) == k - i * call.max

\* fetchFile for the next input with files: its data, or an error.
FetchFile(i) ==
  LET k == FilesOf(i)[chunk[i].uploads + 1]
  IN
  /\ chunk[i].at = "files"
  /\ chunk[i].uploads < Len(FilesOf(i))
  /\ \/ chunk' = [chunk EXCEPT ![i].uploads = @ + 1, ![i].results[Position(i, k)] = k]
     \/ chunk' = [chunk EXCEPT ![i].uploads = @ + 1, ![i].failure = TRUE, ![i].at = "err"]
  /\ UNCHANGED <<call, acc, outcome>>

AllUploaded(i) == chunk[i].at = "files" /\ chunk[i].uploads = Len(FilesOf(i))

NothingToFetch(i) ==
  /\ AllUploaded(i)
  /\ ToFetch(i) = <<>>
  /\ chunk' = [chunk EXCEPT ![i].at = "ok"]
  /\ UNCHANGED <<call, acc, outcome>>

\* fetch fails: no connection, a status other than 2xx, or no list.
FetchFails(i) ==
  /\ AllUploaded(i)
  /\ ToFetch(i) # <<>>
  /\ chunk' = [chunk EXCEPT ![i].post = ToFetch(i), ![i].failure = TRUE, ![i].at = "err"]
  /\ UNCHANGED <<call, acc, outcome>>

\* results[toFetchIndexes[i]] = resp.Data, for count answers.
Placed(i, count) ==
  [p \in DOMAIN chunk[i].results |->
     IF \E a \in 1 .. count : Position(i, ToFetch(i)[a]) = p
     THEN Slice(call, i)[p]
     ELSE chunk[i].results[p]]

\* The service answers with count responses, of which number failed is the
\* first with errors (0: none has any).  They are gone through in order.
Fetch(i) ==
  LET asked == Len(ToFetch(i)) IN
  /\ AllUploaded(i)
  /\ ToFetch(i) # <<>>
  /\ \E count \in 0 .. asked + Surplus :
       \E failed \in 0 .. count :
         LET posted == [chunk EXCEPT ![i].post = ToFetch(i), ![i].answers = count]
         IN \/ /\ failed \in 1 .. asked + 1
               /\ chunk' = [posted EXCEPT ![i].failure = TRUE, ![i].at = "err"]
               /\ UNCHANGED outcome
            \/ /\ failed \notin 1 .. asked + 1
               /\ count <= asked
               /\ chunk' = [posted EXCEPT ![i].results = Placed(i, count), ![i].at = "ok"]
               /\ UNCHANGED outcome
            \/ /\ failed \notin 1 .. asked + 1
               /\ count > asked                   \* index out of range
               /\ chunk' = posted
               /\ outcome' = "panic"
  /\ UNCHANGED <<call, acc>>

QueryBatch(i) == FetchFile(i) \/ NothingToFetch(i) \/ FetchFails(i) \/ Fetch(i)
-----------------------------------------------------------------------------
\* The reducer, and Query's return.

\* Mutant: the chunk is appended, wherever it belongs.
SplicedLast(i) == SubSeq(acc, Len(chunk[i].results) + 1, Len(acc)) \o chunk[i].results

\* acc[0:i*max], the chunk, and what of acc lies behind it.
Spliced(i) ==
  SubSeq(acc, 1, i * call.max) \o chunk[i].results \o
    (IF (i + 1) * call.max < call.n THEN SubSeq(acc, (i + 1) * call.max + 1, Len(acc)) ELSE <<>>)

FoldChunk(i) ==
  /\ chunk[i].at = "ok"
  /\ acc' = Spliced(i)
  /\ chunk' = [chunk EXCEPT ![i].at = "folded"]
  /\ UNCHANGED <<call, outcome>>

\* Mutant: the error is counted for the next fold, which never comes.
FoldErrorWaits(i) ==
  /\ chunk[i].at = "err"
  /\ chunk' = [chunk EXCEPT ![i].at = "stuck"]
  /\ UNCHANGED <<call, acc, outcome>>

FoldError(i) ==
  /\ chunk[i].at = "err"
  /\ chunk' = [chunk EXCEPT ![i].at = "foldedErr"]
  /\ UNCHANGED <<call, acc, outcome>>

\* AsyncMapReduce returns; DepthExecutor.executeRequests compares the lengths.
Return ==
  /\ \A i \in DOMAIN chunk : chunk[i].at \in {"folded", "foldedErr"}
  /\ outcome' = IF (\A i \in DOMAIN chunk : chunk[i].at = "folded") /\ Len(acc) = call.n
                THEN "done" ELSE "failed"
  /\ UNCHANGED <<call, chunk, acc>>

Returned == outcome # "running" /\ UNCHANGED vars

Next ==
  \/ outcome = "running" /\ \/ \E i \in DOMAIN chunk : QueryBatch(i) \/ FoldChunk(i) \/ FoldError(i)
                            \/ Return
  \/ Returned

Spec == Init /\ [][Next]_vars
-----------------------------------------------------------------------------
\* The types of the variables (Query, queryBatch).
Inputs == 1 .. call.n
Data == Inputs \cup {NoData}
Chunk ==
  [at      : {"files", "ok", "err", "folded", "foldedErr"},
   uploads : Nat,
   post    : Seq(Inputs),
   answers : Nat,
   failure : BOOLEAN,
   results : Seq(Data)]

TypeOK ==
  /\ call \in Call
  /\ chunk \in [Chunks(call) -> Chunk]
  /\ acc \in Seq(Data)
  /\ outcome \in {"running", "done", "failed", "panic"}

\* The list Query returns is as long as its inputs, and no input is given the
\* answer of another one: chunks that come in any order, an empty last one,
\* files between the others and short answers shift nothing.  A call that
\* succeeds has met no failure and no answer with errors in any chunk.
AnswersInPlace ==
  /\ Len(acc) = call.n
  /\ \A k \in 1 .. call.n : acc[k] \in {k, NoData}
  /\ outcome = "done" => \A i \in DOMAIN chunk : ~chunk[i].failure

\* The inputs chunk i has sent to the service.
Sent(i) == { FilesOf(i)[f] : f \in 1 .. chunk[i].uploads } \cup Range(chunk[i].post)

\* No input is sent by two chunks, none is left out when the call succeeds, and
\* no batch is larger than maxBatchSize: a mutation is executed once.
SentOnce ==
  /\ \A i, j \in DOMAIN chunk : i # j => Sent(i) \cap Sent(j) = {}
  /\ \A i \in DOMAIN chunk : Len(chunk[i].post) <= call.max
  /\ outcome = "done" => UNION { Sent(i) : i \in DOMAIN chunk } = 1 .. call.n
-----------------------------------------------------------------------------
\* What chunk i knows: its results are at its own places, what it has posted is
\* what it has to, and it is done with its files and the rest when it is "ok".
ChunkInv(i) ==
  LET c == chunk[i] IN
  /\ c.uploads <= Len(FilesOf(i))
  /\ c.post \in {<<>>, ToFetch(i)}
  /\ Len(c.results) = Len(Slice(call, i))
  /\ \A p \in 1 .. Len(c.results) : c.results[p] \in {Slice(call, i)[p], NoData}
  /\ c.failure => c.at \in {"err", "foldedErr"}
  /\ c.at \in {"ok", "folded"} => c.uploads = Len(FilesOf(i)) /\ c.post = ToFetch(i)

\* The inductive invariant: with it, the list of the reducer is never shifted,
\* however the chunks come.
IInv ==
  /\ TypeOK
  /\ \A i \in Chunks(call) : ChunkInv(i)
  /\ Len(acc) = call.n
  /\ \A k \in Inputs : acc[k] \in {k, NoData}
  /\ outcome = "done" => \A i \in Chunks(call) : chunk[i].at = "folded"
=============================================================================
