--------------------------- MODULE ContextCompressor ---------------------------
(***************************************************************************)
(* vills/core/context_compressor.py, applied again and again to the        *)
(* history of a conversation that its caller keeps.  Contents are left     *)
(* out: a message has a number, a text or a list of parts.                 *)
(***************************************************************************)
EXTENDS Integers, Sequences

CONSTANTS
  Limits,   \* pairs (max_messages, keep_recent) to build a compressor with
  MaxSaid   \* bound: messages of a conversation

ASSUME CompressorAssumption ==
  /\ Limits \subseteq [max : Int, keep : Int]
  /\ MaxSaid \in Nat

VARIABLES
  limits,   \* those of this conversation
  history,  \* the messages that the caller keeps
  said      \* how many have been said

compressor_vars == <<limits, history, said>>

\* quotes: the messages whose text a summary repeats (their first 200
\* characters); a summary that is quoted in turn keeps only its beginning.
Message(n, kind) == [n |-> n, kind |-> kind, quotes |-> {}]
Summary(older) ==
  [n |-> 0, kind |-> "summary",
   quotes |-> {older[i].n : i \in {j \in DOMAIN older : older[j].kind = "text"}}]

--------------------------------------------------------------------------------
\* The index that s[i:] begins with and s[:i] ends before, in Python.
SliceIndex(s, i) ==
  LET j == IF i < 0 THEN Len(s) + i ELSE i
  IN  IF j < 0 THEN 0 ELSE IF j > Len(s) THEN Len(s) ELSE j

MutRecent(s) == SubSeq(s, SliceIndex(s, -limits.keep) + 2, Len(s))
Recent(s) == SubSeq(s, SliceIndex(s, -limits.keep) + 1, Len(s))
MutOlder(s) == SubSeq(s, 1, SliceIndex(s, -limits.keep) - 1)
Older(s) == SubSeq(s, 1, SliceIndex(s, -limits.keep))

MutCompressed(s) ==
  IF Len(s) <= limits.max + 1 THEN s ELSE <<Summary(Older(s))>> \o Recent(s)
Compressed(s) ==
  IF Len(s) <= limits.max THEN s ELSE <<Summary(Older(s))>> \o Recent(s)

\* The constructor refuses the other pairs.
CompressorInit ==
  /\ limits \in {l \in Limits : l.keep < l.max}
  /\ history = <<>>
  /\ said = 0

Say(kind) ==
  /\ said < MaxSaid
  /\ said' = said + 1
  /\ history' = Append(history, Message(said + 1, kind))
  /\ UNCHANGED limits

\* The caller compresses and keeps the result; keeping the original is a stutter.
Compress ==
  /\ Len(history) <= MaxSaid + 1  \* bound: with keep_recent = 0 it grows for ever
  /\ history' = Compressed(history)
  /\ UNCHANGED <<limits, said>>

CompressorNext == Compress \/ \E kind \in {"text", "parts"} : Say(kind)

CompressorSpec == CompressorInit /\ [][CompressorNext]_compressor_vars
--------------------------------------------------------------------------------
\* Properties.

\* The last keep_recent messages are in the history as they were said, in order
\* and at its end, however often it has been compressed.
RecentIntact ==
  \A i \in 0..(limits.keep - 1) :
    i < said => i < Len(history) /\ history[Len(history) - i].n = said - i

\* Whatever the limits, a history is at all times its summaries followed by an
\* unbroken run of the latest messages: none is doubled, out of place or missing
\* in between.
Unbroken ==
  \A i \in DOMAIN history :
    \/ history[i].n = said - (Len(history) - i)
    \/ \A j \in 1..i : history[j].kind = "summary"

\* A compressed history fits max_messages if at least one message is kept.  One
\* gets longer only with keep_recent = 0, of which messages[-0:] is everything,
\* or with a negative max_messages (the constructor takes both).
CompressionShrinks ==
  LET n == Len(Compressed(history))
  IN  /\ limits.keep >= 1 => n <= limits.max
      /\ n > Len(history) => limits.keep = 0 \/ limits.max < 0

\* No text vanishes: a text message that leaves the history is quoted by the
\* summary that takes its place.  (A message made of parts does vanish.)
OlderTextQuoted ==
  [][said' = said =>
       \A m \in {history[i] : i \in DOMAIN history} :
         m.kind = "text"
           => m \in {history'[i] : i \in DOMAIN history'} \/ m.n \in Head(history').quotes]_compressor_vars
================================================================================
