------------------------------ MODULE Negentropy ------------------------------
(***************************************************************************)
(* Set reconciliation (nip77/negentropy): a client and a server, each with *)
(* a sealed vector of items, exchange messages until the client knows      *)
(* which items it has and the server has not, and the other way round.     *)
(*                                                                         *)
(* A message is a sequence of ranges. Each range ends at its bound, starts *)
(* where the one before it ended, and says one of three things about the   *)
(* sender's items in it: nothing to do ("skip"), their fingerprint, or     *)
(* their list. One action handles one range, as one turn of the loop in    *)
(* reconcileAux does.                                                      *)
(*                                                                         *)
(* Abstracted: an item is a number, its place in the order of timestamps   *)
(* and ids, so a bound is the item it stands before. A fingerprint is the  *)
(* set of items it is computed from: no two sets have the same. The bytes  *)
(* of a message are counted as one for each id and each fingerprint.       *)
(***************************************************************************)
EXTENDS Naturals, Sequences, FiniteSets

CONSTANTS
  MaxItem,     \* bound: items are 1 .. MaxItem
  Buckets,     \* ranges a large range is split into (16)
  FrameLimit   \* what a message of the client, of the server may weigh

Side == {"client", "server"}

ReconcileAssumption ==
  /\ MaxItem \in Nat
  /\ Buckets \in Nat \ {0}
  /\ FrameLimit \in [Side -> Nat]
  /\ \A s \in Side : FrameLimit[s] >= 2 * Buckets

VARIABLES
  has,        \* the items in each side's storage
  turn,       \* the side that handles a message
  input,      \* the ranges it has not read yet
  prevBound,  \* where the last range it read ended
  skipping,   \* it has ranges to skip that it has not written
  output,     \* the ranges it has written
  haves,      \* ids sent to the client's Haves
  haveNots,   \* ids sent to its HaveNots
  done        \* the client has closed both channels

vars == <<has, turn, input, prevBound, skipping, output, haves, haveNots, done>>

Item == 1..MaxItem
Infinite == MaxItem + 1

RangeOf(mode, bound, items) == [mode |-> mode, bound |-> bound, items |-> items]

TypeOK ==
  LET Message == Seq([mode : {"skip", "fingerprint", "idlist"},
                      bound : 1..Infinite, items : SUBSET Item]) IN
    /\ has \in [Side -> SUBSET Item]
    /\ turn \in Side
    /\ input \in Message /\ output \in Message
    /\ prevBound \in 0..Infinite
    /\ skipping \in BOOLEAN /\ done \in BOOLEAN
    /\ haves \subseteq Item /\ haveNots \subseteq Item

-----------------------------------------------------------------------------
(* The items of a side from one bound to another.                           *)
Between(side, lower, upper) == {i \in has[side] : lower <= i /\ i < upper}

(* ... in order.                                                            *)
Sorted(items) ==
  [n \in 1..Cardinality(items) |->
     CHOOSE i \in items : Cardinality({j \in items : j <= i}) = n]

(* SplitRange: a small range is sent as the list of its ids, a large one as *)
(* the fingerprints of Buckets ranges, of which the first ones have one     *)
(* item more than the others if it does not come out even.                  *)
SplitRange(items, upperBound) ==
  LET sorted == Sorted(items)
      numElems == Cardinality(items)
      start(i) == i * (numElems \div Buckets)
                    + IF i < numElems % Buckets THEN i ELSE numElems % Buckets
      bucket(i) == {sorted[j] : j \in start(i - 1) + 1 .. start(i)}
      nextBound(i) == IF i = Buckets THEN upperBound ELSE sorted[start(i) + 1]
  IN IF numElems < Buckets * 2
     THEN <<RangeOf("idlist", upperBound, items)>>
     ELSE [i \in 1..Buckets |-> RangeOf("fingerprint", nextBound(i), bucket(i))]

(* The ids in a message, each with its place, and the fingerprints; what    *)
(* they weigh is the size of the message.                                   *)
Listed(message) ==
  UNION {{<<k, i>> : i \in message[k].items} :
           k \in {l \in DOMAIN message : message[l].mode = "idlist"}}

Fingerprints(message) ==
  {k \in DOMAIN message : message[k].mode = "fingerprint"}

Size(message) ==
  Cardinality(Listed(message)) + Cardinality(Fingerprints(message))

(* Mutation: a new range is written where the skipped ones should end.      *)
NoSkipWritten == <<>>

(* finishSkip: the skip that is due before anything else is written.        *)
FinishSkip ==
  IF skipping THEN <<RangeOf("skip", prevBound, {})>> ELSE <<>>

(* The end of a turn of the loop: if the message got too long, what this    *)
(* turn would add to it is dropped, and the items from upper on are covered *)
(* by one fingerprint; the rest of the input is not read.                   *)
WriteOutput(written, partial, upper) ==
  IF Size(written) + Size(partial) > FrameLimit[turn]
  THEN /\ output' = written \o
                      <<RangeOf("fingerprint", Infinite,
                              Between(turn, upper, Infinite))>>
       /\ input' = <<>>
       /\ UNCHANGED prevBound
  ELSE /\ output' = written \o partial
       /\ input' = Tail(input)
       /\ prevBound' = Head(input).bound

Reads(mode) == ~done /\ input # <<>> /\ Head(input).mode = mode

(* The items of the reader in the range it reads.                           *)
Ours == Between(turn, prevBound, Head(input).bound)

-----------------------------------------------------------------------------
(* Start: the client's first message is one large range, split.             *)
Init ==
  /\ has \in [Side -> SUBSET Item]
  /\ turn = "server"
  /\ input = SplitRange(has["client"], Infinite)
  /\ prevBound = 0
  /\ skipping = FALSE
  /\ output = <<>>
  /\ haves = {} /\ haveNots = {}
  /\ done = FALSE

ReadSkip ==
  /\ Reads("skip")
  /\ skipping' = TRUE
  /\ WriteOutput(output, <<>>, Head(input).bound)
  /\ UNCHANGED <<has, turn, haves, haveNots, done>>

(* The fingerprints agree: nothing to do in this range.                     *)
ReadSameFingerprint ==
  /\ Reads("fingerprint")
  /\ Head(input).items = Ours
  /\ skipping' = TRUE
  /\ WriteOutput(output, <<>>, Head(input).bound)
  /\ UNCHANGED <<has, turn, haves, haveNots, done>>

(* They do not: look at it more closely.                                    *)
ReadOtherFingerprint ==
  /\ Reads("fingerprint")
  /\ Head(input).items # Ours
  /\ skipping' = FALSE
  /\ WriteOutput(output, FinishSkip \o SplitRange(Ours, Head(input).bound),
            Head(input).bound)
  /\ UNCHANGED <<has, turn, haves, haveNots, done>>

(* Mutation: the client answers a list as the server does.                  *)
ClientAnswersIdList ==
  /\ Reads("idlist")
  /\ turn = "client"
  /\ haves' = haves \cup (Ours \ Head(input).items)
  /\ haveNots' = haveNots \cup (Head(input).items \ Ours)
  /\ skipping' = FALSE
  /\ WriteOutput(output,
                 FinishSkip \o <<RangeOf("idlist", Head(input).bound, Ours)>>,
                 Head(input).bound)
  /\ UNCHANGED <<has, turn, done>>

(* The client compares a list with its own, and is done with the range.     *)
ClientReadsIdList ==
  /\ Reads("idlist")
  /\ turn = "client"
  /\ haves' = haves \cup (Ours \ Head(input).items)
  /\ haveNots' = haveNots \cup (Head(input).items \ Ours)
  /\ skipping' = TRUE
  /\ WriteOutput(output, <<>>, Head(input).bound)
  /\ UNCHANGED <<has, turn, done>>

(* The server answers a list with its own, as far as the message has room:  *)
(* the range then ends before the first item that has none.                 *)
ServerReadsIdList ==
  /\ Reads("idlist")
  /\ turn = "server"
  /\ LET room == (FrameLimit[turn] + 1) - Size(output)
         fits == Cardinality(Ours) <= room
         endBound == IF fits THEN Head(input).bound ELSE Sorted(Ours)[room + 1]
         listed == {i \in Ours : i < endBound}
     IN WriteOutput(output \o FinishSkip \o <<RangeOf("idlist", endBound, listed)>>,
               <<>>, endBound)
  /\ skipping' = FALSE
  /\ UNCHANGED <<has, turn, haves, haveNots, done>>

(* The message is read and the answer goes to the other side.               *)
SendAnswer ==
  /\ ~done /\ input = <<>>
  /\ turn = "server" \/ output # <<>>
  /\ turn' = IF turn = "client" THEN "server" ELSE "client"
  /\ input' = output
  /\ output' = <<>>
  /\ prevBound' = 0
  /\ skipping' = FALSE
  /\ UNCHANGED <<has, haves, haveNots, done>>

(* The client has nothing to answer: it closes Haves and HaveNots.          *)
Finish ==
  /\ ~done /\ input = <<>>
  /\ turn = "client" /\ output = <<>>
  /\ done' = TRUE
  /\ UNCHANGED <<has, turn, input, prevBound, skipping, output, haves, haveNots>>

Next ==
  \/ ReadSkip \/ ReadSameFingerprint \/ ReadOtherFingerprint
  \/ ClientReadsIdList \/ ServerReadsIdList
  \/ SendAnswer \/ Finish

Spec == Init /\ [][Next]_vars

(* Messages are answered.                                                   *)
FairSpec == Spec /\ WF_vars(Next)

-----------------------------------------------------------------------------
(* The client reports nothing but true differences, and when it is done it  *)
(* has reported all of them (fuzz_test.go asserts as much), whatever the    *)
(* frame limits cut off.                                                    *)
DifferenceFound ==
  /\ haves \subseteq has["client"] \ has["server"]
  /\ haveNots \subseteq has["server"] \ has["client"]
  /\ done => /\ haves = has["client"] \ has["server"]
             /\ haveNots = has["server"] \ has["client"]

(* The two sides come to an end: a cut-off message does not lead back to    *)
(* one that was exchanged before.                                           *)
Terminates == <>done
=============================================================================
