---------------------------- MODULE LifoAbstract ----------------------------
(***************************************************************************)
(* What the two devices of CA2/P5/lifo_driver.c promise their users: one   *)
(* bounded stack of characters.  A write is one push of a whole batch,     *)
(* newest character on top; a read takes the newest min(count, size)       *)
(* characters in one step, and then either hands them to the caller or,    *)
(* when the copy to user space faults, hands over the first of them and    *)
(* loses the rest; a read that answers end-of-file does so at a moment     *)
(* when the stack holds nothing.                                           *)
(***************************************************************************)
EXTENDS Integers, Sequences, SequencesExt

CONSTANTS Readers,        \* processes reading /dev/lifo_read
          Chars,          \* the characters that are written
          LIFO_MAX_SIZE,  \* capacity of the stack
          Counts          \* read sizes a caller may ask for

VARIABLES content,  \* the stack, newest character first
          want,     \* want[r]: the count of r's current or last read
          phase,    \* phase[r]: how far that read is, or how it ended
          data      \* data[r]: the characters it took

absVars == <<content, want, phase, data>>

Phases == {"none", "asking", "holding", "data", "eof"}

Finished == {"none", "data", "eof"}

Smaller(a, b) == IF a <= b THEN a ELSE b

-----------------------------------------------------------------------------
AInit == /\ content = <<>>
         /\ want  = [r \in Readers |-> 0]
         /\ phase = [r \in Readers |-> "none"]
         /\ data  = [r \in Readers |-> <<>>]

(* A write, whole or cut short, is one push of the characters it stored. *)
Push == \E n \in 1 .. LIFO_MAX_SIZE - Len(content) : \E batch \in [1 .. n -> Chars] :
          /\ content' = Reverse(batch) \o content
          /\ UNCHANGED <<want, phase, data>>

Ask(r) == /\ phase[r] \in Finished
          /\ \E n \in Counts : want' = [want EXCEPT ![r] = n]
          /\ phase' = [phase EXCEPT ![r] = "asking"]
          /\ data' = [data EXCEPT ![r] = <<>>]
          /\ UNCHANGED content

Take(r) == LET n == Smaller(want[r], Len(content)) IN
           /\ phase[r] = "asking"
           /\ n > 0
           /\ phase' = [phase EXCEPT ![r] = "holding"]
           /\ data' = [data EXCEPT ![r] = SubSeq(content, 1, n)]
           /\ content' = SubSeq(content, n + 1, Len(content))
           /\ UNCHANGED want

Deliver(r) == /\ phase[r] = "holding"
              /\ phase' = [phase EXCEPT ![r] = "data"]
              /\ UNCHANGED <<content, want, data>>

Lose(r) == /\ phase[r] = "holding"
           /\ phase' = [phase EXCEPT ![r] = "none"]
           /\ \E k \in 0 .. Len(data[r]) - 1 : data' = [data EXCEPT ![r] = SubSeq(@, 1, k)]
           /\ UNCHANGED <<content, want>>

EndOfFile(r) == /\ phase[r] = "asking"
                /\ content = <<>>
                /\ want[r] > 0
                /\ phase' = [phase EXCEPT ![r] = "eof"]
                /\ UNCHANGED <<content, want, data>>

(* Interrupted, out of memory, or nothing asked for: no effect. *)
GiveUp(r) == /\ phase[r] = "asking"
             /\ phase' = [phase EXCEPT ![r] = "none"]
             /\ UNCHANGED <<content, want, data>>

ANext == \/ Push
         \/ \E r \in Readers : Ask(r) \/ Take(r) \/ Deliver(r) \/ Lose(r)
                                 \/ EndOfFile(r) \/ GiveUp(r)

ASpec == AInit /\ [][ANext]_absVars
=============================================================================
