--------------------------- MODULE LifoRefinement ---------------------------
(***************************************************************************)
(* Lifo implements LifoAbstract for every value of the constants: each     *)
(* step of the driver is a step of the stack or leaves it as it is.        *)
(***************************************************************************)
EXTENDS LifoProofs

-----------------------------------------------------------------------------
(* The list a write has begun to fill stays in order. *)

(* Where the list and the calls of the writers inside do not change, the
   order stays. *)
LEMMA OrderKept ==
  ASSUME StoredInOrder,
         \A w \in Writers : pc'[w] = "w_push" =>
            /\ pc[w] = "w_push" \/ pushed'[w] = 0
            /\ pushed'[w] # 0 => /\ pushed'[w] = pushed[w]
                                 /\ temp_buffer'[w] = temp_buffer[w]
                                 /\ lifo_stack' = lifo_stack,
         pushed' \in [Writers -> Nat]
  PROVE  StoredInOrder'
  BY DEF StoredInOrder

(* No write has begun. *)
LEMMA InitOrder == Init => StoredInOrder
  BY DEF Init, StoredInOrder, Threads

(* While a reader pops, no writer pushes. *)
LEMMA PopOrder == ASSUME IInv, NEW r \in Readers, ReadPop(r) PROVE StoredInOrder'
  <1>1. \A u \in Threads \ {r} : pc[u] \notin Critical
    BY HolderAlone DEF IInv, Critical, Threads, ReadPop, Transition
  <1>2. \A w \in Writers : pc'[w] # "w_push"
    BY <1>1, ThreadsAssumption DEF IInv, TypeOK, Critical, Threads, ReadPop, Transition
  <1> QED BY <1>2 DEF StoredInOrder

(* A push puts the next character on top of the ones before it. *)
LEMMA PushOrder == ASSUME IInv, StoredInOrder, NEW w \in Writers, WritePush(w) PROVE StoredInOrder'
  <1> DEFINE c == temp_buffer[w][pushed[w] + 1]
  <1>1. /\ <<c>> \in Seq(Chars) /\ Len(<<c>>) = 1 /\ <<c>>[1] = c
        /\ lifo_stack \in Seq(Chars) /\ Len(lifo_stack) \in Nat
    BY ElementOfSeq, LenProperties DEF IInv, TypeOK, Threads, WritePush
  <1>2. \A k \in 1 .. Len(lifo_stack) + 1 :
           (<<c>> \o lifo_stack)[k] = IF k = 1 THEN c ELSE lifo_stack[k - 1]
    BY <1>1, ConcatProperties
  <1>3. /\ lifo_stack' = <<c>> \o lifo_stack /\ pc' = pc /\ temp_buffer' = temp_buffer
        /\ pushed' = [pushed EXCEPT ![w] = @ + 1]
        /\ pc[w] = "w_push" /\ pushed[w] \in Nat
    BY DEF WritePush, Transition, IInv, TypeOK
  <1>4. pushed[w] <= Len(lifo_stack)
    BY <1>3 DEF IInv, Bookkeeping
  <1>5. \A u \in Writers \ {w} : pc[u] # "w_push"
    BY <1>3, HolderAlone DEF IInv, Critical, Threads
  <1>6. \A k \in 1 .. pushed[w] + 1 : lifo_stack'[k] = temp_buffer[w][pushed[w] + 2 - k]
    <2> TAKE k \in 1 .. pushed[w] + 1
    <2>1. CASE k = 1
      BY <1>1, <1>2, <1>3, <2>1
    <2>2. CASE k # 1
      <3>1. k - 1 \in 1 .. pushed[w] /\ k \in 1 .. Len(lifo_stack) + 1
        BY <1>1, <1>3, <1>4, <2>2
      <3>2. lifo_stack[k - 1] = temp_buffer[w][pushed[w] + 1 - (k - 1)]
        BY <1>3, <3>1 DEF StoredInOrder
      <3>3. pushed[w] + 1 - (k - 1) = pushed[w] + 2 - k
        BY <1>3, <3>1
      <3> QED BY <1>2, <1>3, <2>2, <3>1, <3>2, <3>3
    <2> QED BY <2>1, <2>2
  <1>7. pushed'[w] = pushed[w] + 1 /\ pushed[w] + 1 + 1 = pushed[w] + 2
    BY <1>3 DEF IInv, TypeOK
  <1>8. ASSUME NEW u \in Writers, pc'[u] = "w_push", NEW k \in 1 .. pushed'[u]
        PROVE  lifo_stack'[k] = temp_buffer'[u][pushed'[u] + 1 - k]
    <2>1. u = w
      BY <1>3, <1>5, <1>8
    <2>2. k \in 1 .. pushed[w] + 1 /\ pushed'[u] + 1 - k = pushed[w] + 2 - k
      BY <1>3, <1>7, <1>8, <2>1
    <2> QED BY <1>3, <1>6, <2>1, <2>2
  <1> QED BY <1>8 DEF StoredInOrder

(* Every step keeps the order. *)
LEMMA NextOrder == IInv /\ IInv' /\ StoredInOrder /\ [Next]_vars => StoredInOrder'
  <1> SUFFICES ASSUME IInv, IInv', StoredInOrder, [Next]_vars PROVE StoredInOrder'
      OBVIOUS
  <1> USE DEF Transition, Return, shared, request, reader
  <1>0. pushed' \in [Writers -> Nat]
    BY DEF IInv, TypeOK
  <1>1. ASSUME NEW r \in Readers, ReadCall(r) \/ ReadInterrupted(r) \/ ReadSignalled(r) \/ ReaderStep(r)
        PROVE  StoredInOrder'
    <2>1. CASE ReadPop(r)
      BY <2>1, PopOrder
    <2>2. CASE ~ReadPop(r)
      <3>1. /\ lifo_stack' = lifo_stack
            /\ pushed' = pushed
            /\ \A w \in Writers : pc'[w] = pc[w] /\ temp_buffer'[w] = temp_buffer[w]
        BY <1>1, <2>2, ThreadsAssumption
           DEF IInv, TypeOK, Threads, ReaderStep, ReadCall, ReadInterrupted, ReadSignalled, ReadCheckEmpty,
               ReadCheckPassed, ReadWait, ReadLock, ReadNothing, ReadNoMemory, ReadAllocated,
               ReadCopied, ReadFault
      <3> QED BY <1>0, <3>1, OrderKept
    <2> QED BY <2>1, <2>2
  <1>2. ASSUME NEW w \in Writers, WriteRefused(w) \/ WriteCall(w) \/ WriterStep(w)
        PROVE  StoredInOrder'
    <2>1. CASE WritePush(w)
      BY <2>1, PushOrder
    <2>2. CASE WriteHasSpace(w)
      BY <1>0, <2>2, OrderKept DEF WriteHasSpace, IInv, TypeOK, Bookkeeping, Threads
    <2>3. CASE ~WritePush(w) /\ ~WriteHasSpace(w)
      <3>1. /\ lifo_stack' = lifo_stack
            /\ pc'[w] # "w_push"
            /\ \A u \in Writers \ {w} : /\ pushed'[u] = pushed[u]
                                        /\ pc'[u] = pc[u]
                                        /\ temp_buffer'[u] = temp_buffer[u]
        BY <1>2, <2>3, ThreadsAssumption
           DEF IInv, TypeOK, Threads, WriterStep, WriteRefused, WriteCall, WriteLock,
               WriteNoSpace, WriteCutShort, WriteUnlock, WriteWake, lifo_read_queue
      <3> QED BY <1>0, <3>1, OrderKept
    <2> QED BY <2>1, <2>2, <2>3
  <1>3. CASE UNCHANGED vars
    BY <1>3 DEF vars, StoredInOrder
  <1> QED BY <1>1, <1>2, <1>3 DEF Next

(* What a write in progress has stored lies in order on top of the list. *)
THEOREM Order == Spec => []StoredInOrder
  <1> QED BY InitOrder, NextOrder, Invariant, PTL DEF Spec
-----------------------------------------------------------------------------
(* The refinement mapping, step by step. *)

AbsPhase == [r \in Readers |-> PhaseOf(r)]
AbsData  == [r \in Readers |-> TakenBy(r)]

(* A reader that stays where it is looks the same to the abstraction. *)
LEMMA ReaderStill ==
  ASSUME NEW q \in Readers,
         pc'[q] = pc[q], ret'[q] = ret[q], count'[q] = count[q], temp_buffer'[q] = temp_buffer[q],
         bytes_read'[q] = bytes_read[q], user_buffer'[q] = user_buffer[q],
         pc[q] # "r_pop" \/ lifo_stack' = lifo_stack
  PROVE  PhaseOf(q)' = PhaseOf(q) /\ TakenBy(q)' = TakenBy(q)
  BY DEF PhaseOf, TakenBy

(* The abstract functions change at one reader only. *)
LEMMA OneMoves ==
  ASSUME NEW r \in Readers, NEW p, NEW d, PhaseOf(r)' = p, TakenBy(r)' = d,
         \A q \in Readers \ {r} : PhaseOf(q)' = PhaseOf(q) /\ TakenBy(q)' = TakenBy(q)
  PROVE  /\ AbsPhase' = [AbsPhase EXCEPT ![r] = p]
         /\ AbsData' = [AbsData EXCEPT ![r] = d]
         /\ AbsPhase[r] = PhaseOf(r) /\ AbsData[r] = TakenBy(r)
  BY DEF AbsPhase, AbsData

(* A step that shows in none of the abstract variables. *)
LEMMA Stutter ==
  ASSUME Settled' = Settled, count' = count,
         \A q \in Readers : PhaseOf(q)' = PhaseOf(q) /\ TakenBy(q)' = TakenBy(q)
  PROVE  UNCHANGED Abstract!absVars
  BY DEF Abstract!absVars

(* A step of r that leaves the list and the other readers alone. *)
LEMMA OthersStill ==
  ASSUME IInv, NEW r \in Readers,
         lifo_stack' = lifo_stack,
         \A q \in Readers \ {r} : /\ pc'[q] = pc[q] /\ ret'[q] = ret[q] /\ count'[q] = count[q]
                                  /\ temp_buffer'[q] = temp_buffer[q]
                                  /\ bytes_read'[q] = bytes_read[q]
                                  /\ user_buffer'[q] = user_buffer[q]
  PROVE  \A q \in Readers \ {r} : PhaseOf(q)' = PhaseOf(q) /\ TakenBy(q)' = TakenBy(q)
  BY ReaderStill

(* Outside the pop loop a reader hides nothing. *)
LEMMA NothingHidden ==
  ASSUME IInv, NEW r \in Readers, pc[r] # "r_pop"
  PROVE  bytes_read[r] - Len(temp_buffer[r]) = 0
  BY LenProperties DEF IInv, TypeOK, Bookkeeping, Threads

(* A call is a request. *)
LEMMA AskStep == ASSUME IInv, IInv', NEW r \in Readers, ReadCall(r) PROVE Abstract!Ask(r)
  <1> USE DEF Transition, shared
  <1>1. PICK n \in Counts : count' = [count EXCEPT ![r] = n]
    BY DEF ReadCall
  <1>2. /\ PhaseOf(r) \in {"none", "data", "eof"}
        /\ PhaseOf(r)' = "asking" /\ TakenBy(r)' = <<>>
    BY DEF ReadCall, IInv, TypeOK, Threads, PhaseOf, TakenBy
  <1>3. \A q \in Readers \ {r} : PhaseOf(q)' = PhaseOf(q) /\ TakenBy(q)' = TakenBy(q)
    BY OthersStill DEF ReadCall, IInv, TypeOK, Threads
  <1>4. Settled' = Settled
    BY DEF ReadCall, Settled, Hidden
  <1>5. /\ AbsPhase' = [AbsPhase EXCEPT ![r] = "asking"]
        /\ AbsData' = [AbsData EXCEPT ![r] = <<>>]
        /\ AbsPhase[r] = PhaseOf(r)
    BY <1>2, <1>3, OneMoves
  <1> QED BY <1>1, <1>2, <1>4, <1>5 DEF Abstract!Ask, Abstract!Finished, AbsPhase, AbsData

(* A read that ends with nothing, and the list untouched, gave up or found
   the abstract stack empty. *)
LEMMA EmptyEnd ==
  ASSUME IInv, NEW r \in Readers, pc[r] \notin {"idle", "r_pop"}, pc'[r] = "idle",
         ret'[r] = 0 => count[r] = 0 \/ lifo_stack = <<>>,
         ret'[r] <= 0, ret'[r] \in Int,
         Settled' = Settled, UNCHANGED <<count, user_buffer>>,
         \A q \in Readers \ {r} : PhaseOf(q)' = PhaseOf(q) /\ TakenBy(q)' = TakenBy(q)
  PROVE  Abstract!EndOfFile(r) \/ Abstract!GiveUp(r)
  <1> DEFINE p == IF ret'[r] = 0 /\ count[r] > 0 THEN "eof" ELSE "none"
  <1>1. PhaseOf(r) = "asking" /\ PhaseOf(r)' = p /\ TakenBy(r)' = TakenBy(r)
    BY DEF PhaseOf, TakenBy
  <1>2. /\ AbsPhase' = [AbsPhase EXCEPT ![r] = p]
        /\ AbsData' = AbsData
        /\ AbsPhase[r] = "asking"
    BY <1>1, OneMoves DEF AbsData
  <1>3. CASE ret'[r] = 0 /\ count[r] > 0
    <2>1. Settled = <<>>
      <3>1. lifo_stack = <<>> /\ count[r] \in Nat
        BY <1>3 DEF IInv, TypeOK
      <3>2. Hidden \in Nat
        BY LenProperties DEF Hidden, IInv, TypeOK, Bookkeeping, Threads
      <3> QED BY <3>1, <3>2, SubSeqEmpty, EmptySeq DEF Settled
    <2> QED BY <1>2, <1>3, <2>1 DEF Abstract!EndOfFile, AbsPhase, AbsData
  <1>4. CASE ~(ret'[r] = 0 /\ count[r] > 0)
    BY <1>2, <1>4 DEF Abstract!GiveUp, AbsPhase, AbsData
  <1> QED BY <1>3, <1>4

(* From the end of the allocation on, the characters to be popped belong to
   the reader. *)
LEMMA TakeStep == ASSUME IInv, IInv', NEW r \in Readers, ReadAllocated(r) PROVE Abstract!Take(r)
  <1> USE DEF Transition, shared, request
  <1> DEFINE n == ReadSize(r)
  <1>1. lifo_mutex = r /\ lifo_mutex' = r /\ r \notin Writers
    BY ThreadsAssumption DEF ReadAllocated, IInv, MutexMatchesPC, Critical, Threads
  <1>2. temp_buffer[r] = <<>> /\ bytes_read[r] = 0
    <2>1. bytes_read[r] = 0
      BY DEF ReadAllocated, IInv, Bookkeeping
    <2>2. Len(temp_buffer[r]) = 0 /\ temp_buffer[r] \in Seq(Chars)
      BY <2>1, LenProperties DEF IInv, TypeOK, Bookkeeping, Threads
    <2> QED BY <2>1, <2>2, EmptySeq
  <1>3. lifo_stack \in Seq(Chars) /\ Len(lifo_stack) \in Nat /\ n \in 1 .. Len(lifo_stack)
    BY LenProperties DEF ReadAllocated, ReadSize, Smaller, IInv, TypeOK, SizeCounted
  <1>4. Hidden = 0 /\ Hidden' = n
    <2>1. bytes_read'[r] = n /\ temp_buffer'[r] = <<>> /\ Len(<<>>) = 0
      BY <1>2, EmptySeq DEF ReadAllocated, IInv, TypeOK
    <2> HIDE DEF n
    <2>2. Hidden = 0
      <3>1. bytes_read[r] - Len(temp_buffer[r]) = 0
        BY NothingHidden DEF ReadAllocated
      <3> QED BY <1>1, <3>1 DEF Hidden
    <2>3. Hidden' = n
      BY <1>1, <1>3, <2>1 DEF Hidden
    <2> QED BY <2>2, <2>3
  <1>5. Settled = lifo_stack /\ Settled' = SubSeq(lifo_stack, n + 1, Len(lifo_stack))
    BY <1>3, <1>4, SubSeqFull DEF Settled, ReadAllocated
  <1>6. n = Abstract!Smaller(count[r], Len(Settled))
    BY <1>5 DEF ReadSize, Smaller, Abstract!Smaller, IInv, SizeCounted
  <1>7. /\ PhaseOf(r) = "asking" /\ PhaseOf(r)' = "holding"
        /\ TakenBy(r)' = SubSeq(lifo_stack, 1, n)
    <2>1. pc[r] = "r_locked" /\ pc'[r] = "r_pop" /\ bytes_read'[r] = n
          /\ temp_buffer'[r] = <<>> /\ lifo_stack' = lifo_stack
      BY <1>2 DEF ReadAllocated, IInv, TypeOK, Threads
    <2>2. n - Len(temp_buffer'[r]) = n
      BY <1>3, <2>1, EmptySeq
    <2>3. SubSeq(lifo_stack, 1, n) \in Seq(Chars)
      BY <1>3, SubSeqProperties, ElementOfSeq
    <2>4. <<>> \o SubSeq(lifo_stack, 1, n) = SubSeq(lifo_stack, 1, n)
      BY <2>3, ConcatEmptySeq
    <2> QED BY <2>1, <2>2, <2>4 DEF PhaseOf, TakenBy
  <1>8. \A q \in Readers \ {r} : PhaseOf(q)' = PhaseOf(q) /\ TakenBy(q)' = TakenBy(q)
    BY OthersStill DEF ReadAllocated, IInv, TypeOK, Threads
  <1>9. /\ AbsPhase' = [AbsPhase EXCEPT ![r] = "holding"]
        /\ AbsData' = [AbsData EXCEPT ![r] = SubSeq(lifo_stack, 1, n)]
        /\ AbsPhase[r] = "asking"
    BY <1>7, <1>8, OneMoves
  <1>10. count' = count /\ n > 0
    BY <1>3 DEF ReadAllocated
  <1> QED BY <1>5, <1>6, <1>9, <1>10 DEF Abstract!Take, AbsPhase, AbsData

(* Popping a character that is no longer part of the content shows nowhere. *)
LEMMA PopStep == ASSUME IInv, IInv', NEW r \in Readers, ReadPop(r) PROVE UNCHANGED Abstract!absVars
  <1> USE DEF Transition, request
  <1> DEFINE s == lifo_stack
             m == bytes_read[r] - Len(temp_buffer[r])
  <1>1. /\ pc[r] = "r_pop" /\ pc' = pc /\ lifo_stack' = Tail(s)
        /\ temp_buffer' = [temp_buffer EXCEPT ![r] = Append(@, Head(s))]
        /\ UNCHANGED <<lifo_mutex, count, nonblock, ret, bytes_read, user_buffer, pushed>>
    BY DEF ReadPop, IInv, TypeOK
  <1>2. s \in Seq(Chars) /\ s # <<>> /\ Len(s) \in Nat \ {0}
        /\ temp_buffer[r] \in Seq(Chars) /\ Len(temp_buffer[r]) \in Nat
        /\ bytes_read[r] \in Nat /\ Len(temp_buffer[r]) < bytes_read[r]
    BY EmptySeq, LenProperties DEF ReadPop, Popping, IInv, TypeOK, Threads
  <1>3. /\ Head(s) \in Chars /\ Tail(s) \in Seq(Chars) /\ Len(Tail(s)) = Len(s) - 1
        /\ \A i \in 1 .. Len(s) - 1 : Tail(s)[i] = s[i + 1]
        /\ Head(s) = s[1]
    BY <1>2, HeadTailProperties
  <1>4. m \in 1 .. Len(s)
    BY <1>2 DEF IInv, Bookkeeping
  <1>5. temp_buffer'[r] = Append(temp_buffer[r], Head(s))
        /\ Len(temp_buffer'[r]) = Len(temp_buffer[r]) + 1
    BY <1>1, <1>2, <1>3, AppendProperties DEF IInv, TypeOK, Threads
  <1>6. lifo_mutex = r /\ r \notin Writers
    BY <1>1, ThreadsAssumption DEF IInv, MutexMatchesPC, Critical, Threads
  <1>7. Hidden = m /\ Hidden' = m - 1
    BY <1>1, <1>2, <1>5, <1>6 DEF Hidden
  <1>8. Settled' = Settled
    <2>1. Settled' = SubSeq(Tail(s), m, Len(s) - 1)
      <3>1. (m - 1) + 1 = m
        BY <1>4
      <3> HIDE DEF m
      <3> QED BY <1>1, <1>3, <1>7, <3>1 DEF Settled
    <2>2. Settled = SubSeq(s, m + 1, Len(s))
      BY <1>7 DEF Settled
    <2>3. /\ SubSeq(Tail(s), m, Len(s) - 1) \in Seq(Chars)
          /\ Len(SubSeq(Tail(s), m, Len(s) - 1)) = Len(s) - m
          /\ \A i \in 1 .. Len(s) - m : SubSeq(Tail(s), m, Len(s) - 1)[i] = Tail(s)[m + i - 1]
      <3>1. \A i \in m .. Len(s) - 1 : Tail(s)[i] \in Chars
        BY <1>2, <1>3, <1>4, ElementOfSeq
      <3> HIDE DEF m
      <3> QED BY <1>2, <1>4, <3>1, SubSeqProperties
    <2>4. /\ SubSeq(s, m + 1, Len(s)) \in Seq(Chars)
          /\ Len(SubSeq(s, m + 1, Len(s))) = Len(s) - m
          /\ \A i \in 1 .. Len(s) - m : SubSeq(s, m + 1, Len(s))[i] = s[m + i]
      <3>1. \A i \in m + 1 .. Len(s) : s[i] \in Chars
        BY <1>2, <1>4, ElementOfSeq
      <3> HIDE DEF m
      <3> QED BY <1>2, <1>4, <3>1, SubSeqProperties
    <2>5. \A i \in 1 .. Len(s) - m : Tail(s)[m + i - 1] = s[m + i]
      <3> HIDE DEF m
      <3> QED BY <1>2, <1>3, <1>4
    <2> HIDE DEF m, s
    <2>6. SubSeq(Tail(s), m, Len(s) - 1) = SubSeq(s, m + 1, Len(s))
      <3> DEFINE a == SubSeq(Tail(s), m, Len(s) - 1)
                 b == SubSeq(s, m + 1, Len(s))
      <3>1. a \in Seq(Chars) /\ b \in Seq(Chars) /\ Len(a) = Len(b)
        BY <2>3, <2>4
      <3>2. \A i \in 1 .. Len(a) : a[i] = b[i]
        BY <2>3, <2>4, <2>5
      <3> HIDE DEF a, b
      <3>3. a = b
        BY <3>1, <3>2, SeqEqual
      <3> QED BY <3>3 DEF a, b
    <2> QED BY <2>1, <2>2, <2>6
  <1>9. TakenBy(r)' = TakenBy(r)
    <2>1. TakenBy(r) = temp_buffer[r] \o SubSeq(s, 1, m)
      BY <1>1 DEF TakenBy
    <2>2. TakenBy(r)' = Append(temp_buffer[r], Head(s)) \o SubSeq(Tail(s), 1, m - 1)
      <3>1. bytes_read'[r] - Len(temp_buffer'[r]) = m - 1
        BY <1>1, <1>2, <1>5
      <3> QED BY <1>1, <1>5, <3>1 DEF TakenBy
    <2>3. SubSeq(s, 1, m) = <<Head(s)>> \o SubSeq(s, 2, m)
      <3> HIDE DEF m
      <3> QED BY <1>2, <1>3, <1>4, SubSeqRecursiveFirst
    <2>4. SubSeq(s, 2, m) = SubSeq(Tail(s), 1, m - 1)
      <3>1. /\ SubSeq(s, 2, m) \in Seq(Chars) /\ Len(SubSeq(s, 2, m)) = m - 1
            /\ \A i \in 1 .. m - 1 : SubSeq(s, 2, m)[i] = s[i + 1]
        <4>1. \A i \in 2 .. m : s[i] \in Chars
          BY <1>2, <1>4, ElementOfSeq
        <4> HIDE DEF m
        <4> QED BY <1>2, <1>4, <4>1, SubSeqProperties
      <3>2. /\ SubSeq(Tail(s), 1, m - 1) \in Seq(Chars) /\ Len(SubSeq(Tail(s), 1, m - 1)) = m - 1
            /\ \A i \in 1 .. m - 1 : SubSeq(Tail(s), 1, m - 1)[i] = Tail(s)[i]
        <4>1. \A i \in 1 .. m - 1 : Tail(s)[i] \in Chars
          BY <1>2, <1>3, <1>4, ElementOfSeq
        <4> HIDE DEF m
        <4> QED BY <1>2, <1>4, <4>1, SubSeqProperties
      <3>3. \A i \in 1 .. m - 1 : Tail(s)[i] = s[i + 1]
        BY <1>2, <1>3, <1>4
      <3> HIDE DEF m, s
      <3> QED BY <3>1, <3>2, <3>3, SeqEqual
    <2>5. /\ Append(temp_buffer[r], Head(s)) = temp_buffer[r] \o <<Head(s)>>
          /\ <<Head(s)>> \in Seq(Chars)
          /\ SubSeq(s, 2, m) \in Seq(Chars)
      <3>1. \A i \in 2 .. m : s[i] \in Chars
        BY <1>2, <1>4, ElementOfSeq
      <3> HIDE DEF m, s
      <3>2. SubSeq(s, 2, m) \in Seq(Chars)
        BY <1>4, <3>1, SubSeqProperties
      <3>3. Append(temp_buffer[r], Head(s)) = temp_buffer[r] \o <<Head(s)>>
        BY <1>2, <1>3, AppendIsConcat
      <3>4. <<Head(s)>> \in Seq(Chars)
        BY <1>3
      <3> QED BY <3>2, <3>3, <3>4
    <2> HIDE DEF m, s
    <2>6. (temp_buffer[r] \o <<Head(s)>>) \o SubSeq(s, 2, m)
             = temp_buffer[r] \o (<<Head(s)>> \o SubSeq(s, 2, m))
      <3> DEFINE x == temp_buffer[r]  y == <<Head(s)>>  z == SubSeq(s, 2, m)
      <3>1. x \in Seq(Chars) /\ y \in Seq(Chars) /\ z \in Seq(Chars)
        BY <1>2, <2>5
      <3> HIDE DEF x, y, z
      <3>2. (x \o y) \o z = x \o (y \o z)
        BY <3>1, ConcatAssociative
      <3> QED BY <3>2 DEF x, y, z
    <2> QED BY <2>1, <2>2, <2>3, <2>4, <2>5, <2>6
  <1>10. PhaseOf(r)' = PhaseOf(r)
    BY <1>1 DEF PhaseOf
  <1>11. \A q \in Readers \ {r} : PhaseOf(q)' = PhaseOf(q) /\ TakenBy(q)' = TakenBy(q)
    <2>1. \A q \in Readers \ {r} : pc[q] # "r_pop" /\ temp_buffer'[q] = temp_buffer[q]
      BY <1>1, HolderAlone DEF IInv, TypeOK, Critical, Threads
    <2> QED BY <1>1, <2>1, ReaderStill
  <1> QED BY <1>1, <1>8, <1>9, <1>10, <1>11, Stutter

(* At the end of the loop nothing is hidden any more, whether the copy to
   user space works or not. *)
LEMMA LoopOver ==
  ASSUME IInv, NEW r \in Readers, pc[r] = "r_pop", ~Popping(r), lifo_mutex' = NoThread,
         lifo_stack' = lifo_stack
  PROVE  /\ Len(temp_buffer[r]) = bytes_read[r]
         /\ Settled' = Settled
         /\ TakenBy(r) = temp_buffer[r]
         /\ PhaseOf(r) = "holding"
  <1>1. lifo_mutex = r /\ r \notin Writers /\ NoThread \notin Readers /\ NoThread \notin Writers
    BY ThreadsAssumption DEF IInv, MutexMatchesPC, Critical, Threads
  <1>2. temp_buffer[r] \in Seq(Chars) /\ Len(temp_buffer[r]) \in Nat /\ bytes_read[r] \in Nat
    BY LenProperties DEF IInv, TypeOK, Threads
  <1>3. Len(temp_buffer[r]) = bytes_read[r]
    BY <1>2, EmptySeq DEF Popping, IInv, Bookkeeping
  <1>4. bytes_read[r] - Len(temp_buffer[r]) = 0
    BY <1>2, <1>3
  <1>5. Hidden = 0 /\ Hidden' = 0
    BY <1>1, <1>4 DEF Hidden
  <1>6. Settled' = Settled
    BY <1>5 DEF Settled
  <1>7. TakenBy(r) = temp_buffer[r]
    <2>1. SubSeq(lifo_stack, 1, 0) = <<>>
      BY SubSeqEmpty
    <2>2. temp_buffer[r] \o <<>> = temp_buffer[r]
      BY <1>2, ConcatEmptySeq
    <2> QED BY <1>4, <2>1, <2>2 DEF TakenBy
  <1> QED BY <1>3, <1>6, <1>7 DEF PhaseOf

(* The copy succeeds: the reader has what it took. *)
LEMMA DeliverStep == ASSUME IInv, IInv', NEW r \in Readers, ReadCopied(r) PROVE Abstract!Deliver(r)
  <1> USE DEF Transition, Return, mutex_unlock, shared, request
  <1>1. /\ Len(temp_buffer[r]) = bytes_read[r] /\ Settled' = Settled
        /\ TakenBy(r) = temp_buffer[r] /\ PhaseOf(r) = "holding"
    BY LoopOver DEF ReadCopied
  <1>2. pc'[r] = "idle" /\ ret'[r] = bytes_read[r] /\ user_buffer'[r] = temp_buffer[r]
        /\ bytes_read[r] > 0
    BY DEF ReadCopied, IInv, TypeOK, Bookkeeping, Threads
  <1>3. PhaseOf(r)' = "data" /\ TakenBy(r)' = TakenBy(r)
    BY <1>1, <1>2 DEF PhaseOf, TakenBy
  <1>4. \A q \in Readers \ {r} : PhaseOf(q)' = PhaseOf(q) /\ TakenBy(q)' = TakenBy(q)
    BY OthersStill DEF ReadCopied, IInv, TypeOK, Threads
  <1>5. /\ AbsPhase' = [AbsPhase EXCEPT ![r] = "data"]
        /\ AbsData' = AbsData
        /\ AbsPhase[r] = "holding"
    BY <1>1, <1>3, <1>4, OneMoves DEF AbsData
  <1>6. count' = count
    BY DEF ReadCopied
  <1> QED BY <1>1, <1>5, <1>6 DEF Abstract!Deliver, AbsPhase, AbsData

(* The copy faults: the reader has the first characters it took, the others are gone. *)
LEMMA LoseStep == ASSUME IInv, IInv', NEW r \in Readers, ReadFault(r) PROVE Abstract!Lose(r)
  <1> USE DEF Transition, Return, mutex_unlock, shared, request
  <1>1. /\ Len(temp_buffer[r]) = bytes_read[r] /\ Settled' = Settled
        /\ TakenBy(r) = temp_buffer[r] /\ PhaseOf(r) = "holding"
    BY LoopOver DEF ReadFault
  <1>2. PICK k \in 0 .. bytes_read[r] - 1 :
           user_buffer' = [user_buffer EXCEPT ![r] = SubSeq(temp_buffer[r], 1, k)]
    BY DEF ReadFault, CopiedInPart
  <1> DEFINE part == SubSeq(TakenBy(r), 1, k)
  <1>3. pc'[r] = "idle" /\ ret'[r] = EFAULT /\ user_buffer'[r] = part
    BY <1>1, <1>2 DEF ReadFault, IInv, TypeOK, Bookkeeping, Threads
  <1>4. PhaseOf(r)' = "none" /\ TakenBy(r)' = part
    <2> HIDE DEF part
    <2> QED BY <1>3 DEF PhaseOf, TakenBy, EFAULT
  <1>5. \A q \in Readers \ {r} : PhaseOf(q)' = PhaseOf(q) /\ TakenBy(q)' = TakenBy(q)
    BY OthersStill DEF ReadFault, CopiedInPart, IInv, TypeOK, Threads
  <1>6. /\ AbsPhase' = [AbsPhase EXCEPT ![r] = "none"]
        /\ AbsData' = [AbsData EXCEPT ![r] = part]
        /\ AbsPhase[r] = "holding" /\ AbsData[r] = TakenBy(r)
    BY <1>1, <1>4, <1>5, OneMoves
  <1>7. count' = count /\ k \in 0 .. Len(AbsData[r]) - 1
    BY <1>1, <1>6 DEF ReadFault
  <1>8. \E l \in 0 .. Len(AbsData[r]) - 1 : AbsData' = [AbsData EXCEPT ![r] = SubSeq(@, 1, l)]
    BY <1>6, <1>7
  <1> QED BY <1>1, <1>6, <1>7, <1>8 DEF Abstract!Lose, AbsPhase, AbsData

(* A reader that takes the mutex, or gives it back without having popped,
   changes nothing of the content. *)
LEMMA ReaderHoldsNothing ==
  ASSUME IInv, NEW r \in Readers, pc[r] # "r_pop",
         lifo_mutex \in {r, NoThread}, lifo_mutex' \in {r, NoThread},
         lifo_stack' = lifo_stack, bytes_read'[r] = bytes_read[r],
         Len(temp_buffer'[r]) = Len(temp_buffer[r])
  PROVE  Settled' = Settled
  <1>1. bytes_read[r] - Len(temp_buffer[r]) = 0 /\ bytes_read'[r] - Len(temp_buffer'[r]) = 0
    BY NothingHidden
  <1>2. r \notin Writers /\ NoThread \notin Readers /\ NoThread \notin Writers
    BY ThreadsAssumption DEF Threads
  <1>3. Hidden = 0 /\ Hidden' = 0
    BY <1>1, <1>2 DEF Hidden
  <1> QED BY <1>3 DEF Settled

(* Every step of a reader is a step of the abstract stack. *)
LEMMA ReaderRefines ==
  ASSUME IInv, IInv', NEW r \in Readers, ReadCall(r) \/ ReadInterrupted(r) \/ ReadSignalled(r) \/ ReaderStep(r)
  PROVE  [Abstract!ANext]_(Abstract!absVars)
  <1> USE DEF Transition, Return, mutex_lock, mutex_unlock, shared, request
  <1> DEFINE RStep == Abstract!Ask(r) \/ Abstract!Take(r) \/ Abstract!Deliver(r) \/ Abstract!Lose(r)
                         \/ Abstract!EndOfFile(r) \/ Abstract!GiveUp(r)
  <1>0. RStep => Abstract!ANext
    BY DEF Abstract!ANext
  <1>1. CASE ReadCall(r)
    BY <1>0, <1>1, AskStep
  <1>2. CASE ReadAllocated(r)
    BY <1>0, <1>2, TakeStep
  <1>3. CASE ReadPop(r)
    BY <1>3, PopStep
  <1>4. CASE ReadCopied(r)
    BY <1>0, <1>4, DeliverStep
  <1>5. CASE ReadFault(r)
    BY <1>0, <1>5, LoseStep
  <1>6. CASE ReadCheckPassed(r) \/ ReadWait(r) \/ ReadSignalled(r) \/ ReadLock(r)
    <2>1. \A q \in Readers \ {r} : PhaseOf(q)' = PhaseOf(q) /\ TakenBy(q)' = TakenBy(q)
      BY <1>6, OthersStill DEF ReadCheckPassed, ReadWait, ReadSignalled, ReadLock, IInv, TypeOK, Threads
    <2>2. PhaseOf(r)' = PhaseOf(r) /\ TakenBy(r)' = TakenBy(r)
      BY <1>6 DEF ReadCheckPassed, ReadWait, ReadSignalled, ReadLock, IInv, TypeOK, Threads, PhaseOf, TakenBy
    <2>3. Settled' = Settled
      <3>1. CASE ReadLock(r)
        BY <3>1, ReaderHoldsNothing DEF ReadLock
      <3>2. CASE ReadCheckPassed(r) \/ ReadWait(r) \/ ReadSignalled(r)
        BY <3>2 DEF ReadCheckPassed, ReadWait, ReadSignalled, Settled, Hidden
      <3> QED BY <1>6, <3>1, <3>2
    <2>4. count' = count
      BY <1>6 DEF ReadCheckPassed, ReadWait, ReadSignalled, ReadLock
    <2> QED BY <2>1, <2>2, <2>3, <2>4, Stutter
  <1>7. CASE ReadCheckEmpty(r) \/ ReadInterrupted(r) \/ ReadNothing(r) \/ ReadNoMemory(r)
    <2>1. \A q \in Readers \ {r} : PhaseOf(q)' = PhaseOf(q) /\ TakenBy(q)' = TakenBy(q)
      BY <1>7, OthersStill
         DEF ReadCheckEmpty, ReadInterrupted, ReadNothing, ReadNoMemory, IInv, TypeOK, Threads
    <2>2. /\ pc[r] \notin {"idle", "r_pop"} /\ pc'[r] = "idle"
          /\ temp_buffer'[r] = <<>>
          /\ lifo_stack' = lifo_stack /\ UNCHANGED <<count, user_buffer, bytes_read, pushed>>
      BY <1>7 DEF ReadCheckEmpty, ReadInterrupted, ReadNothing, ReadNoMemory, IInv, TypeOK, Threads
    <2>3. ret'[r] <= 0 /\ ret'[r] \in Int
      BY <1>7 DEF ReadCheckEmpty, ReadInterrupted, ReadNothing, ReadNoMemory, IInv, TypeOK, Threads,
                  ENOMEM, ERESTARTSYS
    <2>4. ret'[r] = 0 => count[r] = 0 \/ lifo_stack = <<>>
      <3>1. CASE ReadNothing(r)
        <4>1. lifo_stack \in Seq(Chars) /\ Len(lifo_stack) = total_size /\ count[r] \in Nat
          BY DEF IInv, TypeOK, SizeCounted
        <4>2. lifo_stack # <<>> => Len(lifo_stack) > 0
          BY <4>1, EmptySeq
        <4> QED BY <3>1, <4>1, <4>2 DEF ReadNothing, ReadSize, Smaller
      <3>2. CASE ReadCheckEmpty(r)
        BY <3>2 DEF ReadCheckEmpty
      <3>3. CASE ReadInterrupted(r) \/ ReadNoMemory(r)
        BY <3>3 DEF ReadInterrupted, ReadNoMemory, IInv, TypeOK, Threads, ENOMEM, ERESTARTSYS
      <3> QED BY <1>7, <3>1, <3>2, <3>3
    <2>5. temp_buffer[r] = <<>> /\ Len(temp_buffer'[r]) = Len(temp_buffer[r])
      BY <2>2, EmptySeq, LenProperties DEF IInv, TypeOK, Bookkeeping, Threads
    <2>6. Settled' = Settled
      <3>1. CASE ReadNothing(r) \/ ReadNoMemory(r)
        <4>1. lifo_mutex = r /\ lifo_mutex' = NoThread
          BY <3>1 DEF ReadNothing, ReadNoMemory, IInv, MutexMatchesPC, Critical, Threads
        <4> QED BY <2>2, <2>5, <4>1, ReaderHoldsNothing
      <3>2. CASE ReadCheckEmpty(r) \/ ReadInterrupted(r)
        <4>1. lifo_mutex' = lifo_mutex /\ temp_buffer' = temp_buffer
          <5>1. temp_buffer' = [temp_buffer EXCEPT ![r] = <<>>] /\ temp_buffer \in [Threads -> Seq(Chars)]
            BY <3>2 DEF ReadCheckEmpty, ReadInterrupted, IInv, TypeOK
          <5>2. lifo_mutex' = lifo_mutex
            BY <3>2 DEF ReadCheckEmpty, ReadInterrupted
          <5> QED BY <2>5, <5>1, <5>2
        <4> QED BY <2>2, <4>1 DEF Settled, Hidden
      <3> QED BY <1>7, <3>1, <3>2
    <2>7. Abstract!EndOfFile(r) \/ Abstract!GiveUp(r)
      BY <2>1, <2>2, <2>3, <2>4, <2>6, EmptyEnd
    <2> QED BY <1>0, <2>7
  <1> QED BY <1>1, <1>2, <1>3, <1>4, <1>5, <1>6, <1>7 DEF ReaderStep

(* What a write has stored lies reversed on top of the list. *)
LEMMA TopIsReversed ==
  ASSUME IInv, StoredInOrder, NEW w \in Writers, pc[w] = "w_push", pushed[w] > 0
  PROVE  LET batch == SubSeq(temp_buffer[w], 1, pushed[w]) IN
         /\ batch \in [1 .. pushed[w] -> Chars]
         /\ lifo_stack = Abstract!Reverse(batch) \o SubSeq(lifo_stack, pushed[w] + 1, Len(lifo_stack))
         /\ Len(SubSeq(lifo_stack, pushed[w] + 1, Len(lifo_stack))) = Len(lifo_stack) - pushed[w]
  <1> DEFINE p == pushed[w]
             t == temp_buffer[w]
             s == lifo_stack
             batch == SubSeq(t, 1, p)
             rev == Abstract!Reverse(batch)
             rest == SubSeq(s, p + 1, Len(s))
  <1>1. /\ t \in Seq(Chars) /\ Len(t) \in Nat
        /\ s \in Seq(Chars) /\ Len(s) \in Nat
        /\ p \in Nat \ {0} /\ p <= Len(t) /\ p <= Len(s)
    BY LenProperties DEF IInv, TypeOK, Bookkeeping, Threads
  <1>2. \A k \in 1 .. p : s[k] = t[p + 1 - k]
    BY DEF StoredInOrder
  <1> HIDE DEF p, t, s
  <1>3. /\ batch \in Seq(Chars) /\ Len(batch) = p
        /\ \A i \in 1 .. p : batch[i] = t[i]
    <2>1. \A i \in 1 .. p : t[i] \in Chars
      BY <1>1, ElementOfSeq
    <2> QED BY <1>1, <2>1, SubSeqProperties
  <1>4. batch \in [1 .. p -> Chars]
    BY <1>3, LenProperties
  <1>5. /\ rest \in Seq(Chars) /\ Len(rest) = Len(s) - p
        /\ \A i \in 1 .. Len(s) - p : rest[i] = s[p + i]
    <2>1. \A i \in p + 1 .. Len(s) : s[i] \in Chars
      BY <1>1, ElementOfSeq
    <2> QED BY <1>1, <2>1, SubSeqProperties
  <1>6. rev = [i \in 1 .. p |-> batch[(p - i) + 1]]
    BY <1>3 DEF Abstract!Reverse
  <1>7. \A i \in 1 .. p : (p - i) + 1 \in 1 .. p /\ (p - i) + 1 = p + 1 - i
    BY <1>1
  <1>8. rev = [i \in 1 .. p |-> s[i]]
    BY <1>2, <1>3, <1>6, <1>7
  <1>9. rev \in Seq(Chars) /\ Len(rev) = p /\ \A i \in 1 .. p : rev[i] = s[i]
    <2>1. \A i \in 1 .. p : s[i] \in Chars
      BY <1>1, ElementOfSeq
    <2> QED BY <1>1, <1>8, <2>1
  <1> HIDE DEF batch, rev, rest
  <1>10. /\ rev \o rest \in Seq(Chars) /\ Len(rev \o rest) = p + (Len(s) - p)
         /\ \A i \in 1 .. p + (Len(s) - p) : (rev \o rest)[i] = IF i <= p THEN rev[i] ELSE rest[i - p]
    <2>1. rev \in Seq(Chars) /\ rest \in Seq(Chars)
      BY <1>5, <1>9
    <2>2. /\ rev \o rest \in Seq(Chars) /\ Len(rev \o rest) = Len(rev) + Len(rest)
          /\ \A i \in 1 .. Len(rev) + Len(rest) :
                (rev \o rest)[i] = IF i <= Len(rev) THEN rev[i] ELSE rest[i - Len(rev)]
      BY <2>1, ConcatProperties
    <2>3. Len(rev) = p /\ Len(rest) = Len(s) - p
      BY <1>5, <1>9
    <2> QED BY <2>2, <2>3
  <1>11. \A i \in 1 .. Len(s) : (rev \o rest)[i] = s[i]
    <2> TAKE i \in 1 .. Len(s)
    <2>1. i \in 1 .. p + (Len(s) - p)
      BY <1>1
    <2>2. CASE i <= p
      <3>1. i \in 1 .. p
        BY <1>1, <2>2
      <3> QED BY <1>9, <1>10, <2>1, <2>2, <3>1
    <2>3. CASE ~(i <= p)
      <3>1. i - p \in 1 .. Len(s) - p /\ p + (i - p) = i
        BY <1>1, <2>3
      <3> QED BY <1>5, <1>10, <2>1, <2>3, <3>1
    <2> QED BY <2>2, <2>3
  <1>12. Len(rev \o rest) = Len(s)
    BY <1>1, <1>10
  <1>13. s = rev \o rest
    <2> DEFINE x == rev \o rest
    <2>1. x \in Seq(Chars) /\ Len(x) = Len(s) /\ \A i \in 1 .. Len(s) : x[i] = s[i]
      BY <1>10, <1>11, <1>12
    <2> HIDE DEF x
    <2>2. x = s
      BY <1>1, <2>1, SeqEqual
    <2> QED BY <2>2 DEF x
  <1> QED BY <1>4, <1>5, <1>13 DEF p, t, s, batch, rev, rest

(* A write that leaves its loop, whole or cut short, has pushed its batch. *)
LEMMA PushStep ==
  ASSUME IInv, StoredInOrder, NEW w \in Writers, pc[w] = "w_push",
         lifo_mutex' = NoThread, lifo_stack' = lifo_stack, count' = count,
         \A q \in Readers : PhaseOf(q)' = PhaseOf(q) /\ TakenBy(q)' = TakenBy(q)
  PROVE  [Abstract!ANext]_(Abstract!absVars)
  <1>1. lifo_mutex = w /\ NoThread \notin Readers /\ NoThread \notin Writers
    BY ThreadsAssumption DEF IInv, MutexMatchesPC, Critical, Threads
  <1>2. Hidden = pushed[w] /\ Hidden' = 0
    BY <1>1 DEF Hidden
  <1>3. lifo_stack \in Seq(Chars) /\ Len(lifo_stack) \in Nat /\ pushed[w] \in Nat
        /\ pushed[w] <= Len(lifo_stack) /\ Len(lifo_stack) <= LIFO_MAX_SIZE
    BY LenProperties DEF IInv, TypeOK, Bookkeeping, SizeCounted
  <1>4. Settled' = lifo_stack
    BY <1>2, <1>3, SubSeqFull DEF Settled
  <1>5. CASE pushed[w] = 0
    <2>1. Settled = lifo_stack
      BY <1>2, <1>3, <1>5, SubSeqFull DEF Settled
    <2> QED BY <1>4, <2>1, Stutter
  <1>6. CASE pushed[w] > 0
    <2> DEFINE batch == SubSeq(temp_buffer[w], 1, pushed[w])
    <2>1. /\ batch \in [1 .. pushed[w] -> Chars]
          /\ Settled' = Abstract!Reverse(batch) \o Settled
          /\ Len(Settled) = Len(lifo_stack) - pushed[w]
      BY <1>2, <1>4, <1>6, TopIsReversed DEF Settled
    <2>2. pushed[w] \in 1 .. LIFO_MAX_SIZE - Len(Settled)
      BY <1>3, <1>6, <2>1, SizesAssumption
    <2>3. UNCHANGED <<count, AbsPhase, AbsData>>
      BY DEF AbsPhase, AbsData
    <2> HIDE DEF batch
    <2>4. Abstract!Push
      BY <2>1, <2>2, <2>3 DEF Abstract!Push, AbsPhase, AbsData
    <2> QED BY <2>4 DEF Abstract!ANext
  <1> QED BY <1>3, <1>5, <1>6

(* A pushed character is not part of the content before its write is done. *)
LEMMA PushHidden == ASSUME IInv, NEW w \in Writers, WritePush(w) PROVE Settled' = Settled
  <1> DEFINE s == lifo_stack
             p == pushed[w]
             c == temp_buffer[w][p + 1]
  <1>1. lifo_mutex = w /\ lifo_mutex' = w
    BY DEF WritePush, Transition, IInv, MutexMatchesPC, Critical, Threads
  <1>2. s \in Seq(Chars) /\ Len(s) \in Nat /\ p \in Nat /\ p <= Len(s) /\ p < Len(temp_buffer[w])
    BY LenProperties DEF WritePush, Transition, IInv, TypeOK, Bookkeeping
  <1>3. <<c>> \in Seq(Chars) /\ Len(<<c>>) = 1
    BY <1>2, ElementOfSeq DEF IInv, TypeOK, Threads
  <1>4. lifo_stack' = <<c>> \o s /\ pushed'[w] = p + 1
    BY DEF WritePush, IInv, TypeOK
  <1> HIDE DEF s, p, c
  <1>5. /\ <<c>> \o s \in Seq(Chars) /\ Len(<<c>> \o s) = Len(s) + 1
        /\ \A i \in 1 .. 1 + Len(s) : (<<c>> \o s)[i] = IF i <= 1 THEN <<c>>[i] ELSE s[i - 1]
    BY <1>2, <1>3, ConcatProperties
  <1>6. Settled = SubSeq(s, p + 1, Len(s)) /\ Settled' = SubSeq(<<c>> \o s, (p + 1) + 1, Len(s) + 1)
    <2>1. Hidden = p /\ Hidden' = p + 1
      BY <1>1, <1>4 DEF Hidden, p
    <2> QED BY <1>4, <1>5, <2>1 DEF Settled, s
  <1> DEFINE a == SubSeq(s, p + 1, Len(s))
             b == SubSeq(<<c>> \o s, (p + 1) + 1, Len(s) + 1)
  <1>7. a \in Seq(Chars) /\ Len(a) = Len(s) - p /\ \A i \in 1 .. Len(s) - p : a[i] = s[p + i]
    <2>1. \A i \in p + 1 .. Len(s) : s[i] \in Chars
      BY <1>2, ElementOfSeq
    <2> QED BY <1>2, <2>1, SubSeqProperties
  <1>8. b \in Seq(Chars) /\ Len(b) = Len(s) - p
        /\ \A i \in 1 .. Len(s) - p : b[i] = (<<c>> \o s)[p + 1 + i]
    <2>1. \A i \in (p + 1) + 1 .. Len(s) + 1 : (<<c>> \o s)[i] \in Chars
      BY <1>2, <1>5, ElementOfSeq
    <2> DEFINE x == <<c>> \o s
    <2> HIDE DEF x
    <2>2. \A i \in (p + 1) + 1 .. Len(s) + 1 : x[i] \in Chars
      BY <2>1 DEF x
    <2>3. LET y == SubSeq(x, (p + 1) + 1, Len(s) + 1) IN
          /\ y \in Seq(Chars) /\ Len(y) = Len(s) - p
          /\ \A i \in 1 .. Len(s) - p : y[i] = x[p + 1 + i]
      BY <1>2, <2>2, SubSeqProperties
    <2> QED BY <2>3 DEF x
  <1>9. \A i \in 1 .. Len(s) - p : (<<c>> \o s)[p + 1 + i] = s[p + i]
    BY <1>2, <1>5
  <1> HIDE DEF a, b
  <1>10. a = b
    BY <1>7, <1>8, <1>9, SeqEqual
  <1> QED BY <1>6, <1>10 DEF a, b

(* Every step of a writer is a step of the abstract stack, or shows nowhere. *)
LEMMA WriterRefines ==
  ASSUME IInv, IInv', StoredInOrder, NEW w \in Writers, WriteRefused(w) \/ WriteCall(w) \/ WriterStep(w)
  PROVE  [Abstract!ANext]_(Abstract!absVars)
  <1> USE DEF Transition, Return, mutex_lock, mutex_unlock, shared, request, reader
  <1>1. count' = count
    BY DEF WriterStep, WriteRefused, WriteCall, WriteLock, WriteNoSpace, WriteHasSpace, WritePush,
           WriteCutShort, WriteUnlock, WriteWake
  <1>2. \A q \in Readers : PhaseOf(q)' = PhaseOf(q) /\ TakenBy(q)' = TakenBy(q)
    <2>1. \A q \in Readers : /\ ret'[q] = ret[q] /\ temp_buffer'[q] = temp_buffer[q]
                             /\ bytes_read'[q] = bytes_read[q] /\ user_buffer'[q] = user_buffer[q]
      BY ThreadsAssumption
         DEF WriterStep, WriteRefused, WriteCall, WriteLock, WriteNoSpace, WriteHasSpace, WritePush,
             WriteCutShort, WriteUnlock, WriteWake, IInv, TypeOK, Threads
    <2>2. CASE WriteWake(w)
      <3>1. \A q \in Readers : pc'[q] = IF pc[q] = "r_asleep" THEN "r_wait" ELSE pc[q]
        BY <2>2, ThreadsAssumption DEF WriteWake, lifo_read_queue, IInv, TypeOK, Threads
      <3>2. lifo_stack' = lifo_stack
        BY <2>2 DEF WriteWake
      <3> QED BY <1>1, <2>1, <3>1, <3>2 DEF PhaseOf, TakenBy
    <2>3. CASE ~WriteWake(w)
      <3>1. \A q \in Readers : pc'[q] = pc[q]
        BY <2>3, ThreadsAssumption
           DEF WriterStep, WriteRefused, WriteCall, WriteLock, WriteNoSpace, WriteHasSpace, WritePush,
               WriteCutShort, WriteUnlock, IInv, TypeOK, Threads
      <3>2. CASE WritePush(w)
        <4>1. \A q \in Readers : pc[q] # "r_pop"
          BY <3>2, HolderAlone, ThreadsAssumption DEF WritePush, IInv, Critical, Threads
        <4> QED BY <1>1, <2>1, <3>1, <4>1, ReaderStill
      <3>3. CASE ~WritePush(w)
        <4>1. lifo_stack' = lifo_stack
          BY <2>3, <3>3 DEF WriterStep, WriteRefused, WriteCall, WriteLock, WriteNoSpace, WriteHasSpace,
                            WriteCutShort, WriteUnlock
        <4> QED BY <1>1, <2>1, <3>1, <4>1, ReaderStill
      <3> QED BY <3>2, <3>3
    <2> QED BY <2>2, <2>3
  <1>3. CASE WriteCutShort(w) \/ WriteUnlock(w)
    BY <1>1, <1>2, <1>3, PushStep DEF WriteCutShort, WriteUnlock
  <1>4. CASE WritePush(w)
    <2>1. Settled' = Settled
      BY <1>4, PushHidden
    <2> QED BY <1>1, <1>2, <2>1, Stutter
  <1>5. CASE WriteLock(w) \/ WriteNoSpace(w)
    <2>1. pushed[w] = 0 /\ pushed' = pushed /\ lifo_stack' = lifo_stack
      BY <1>5 DEF WriteLock, WriteNoSpace, IInv, Bookkeeping
    <2>2. lifo_mutex \in {w, NoThread} /\ lifo_mutex' \in {w, NoThread}
      BY <1>5 DEF WriteLock, WriteNoSpace, IInv, MutexMatchesPC, Critical, Threads
    <2>3. Hidden = 0 /\ Hidden' = 0
      BY <2>1, <2>2, ThreadsAssumption DEF Hidden, Threads
    <2>4. Settled' = Settled
      BY <2>1, <2>3 DEF Settled
    <2> QED BY <1>1, <1>2, <2>4, Stutter
  <1>6. CASE WriteHasSpace(w)
    <2>1. Settled' = Settled
      BY <1>6 DEF WriteHasSpace, Settled, Hidden
    <2> QED BY <1>1, <1>2, <2>1, Stutter
  <1>7. CASE WriteRefused(w) \/ WriteCall(w) \/ WriteWake(w)
    <2>1. lifo_mutex' = lifo_mutex /\ lifo_stack' = lifo_stack /\ bytes_read' = bytes_read
      BY <1>7 DEF WriteRefused, WriteCall, WriteWake
    <2>2. lifo_mutex # w
      BY <1>7 DEF WriteRefused, WriteCall, WriteWake, IInv, MutexMatchesPC, Critical, Threads
    <2>3. \A u \in Writers \ {w} : pushed'[u] = pushed[u]
      BY <1>7 DEF WriteRefused, WriteCall, WriteWake, IInv, TypeOK
    <2>4. \A q \in Readers : temp_buffer'[q] = temp_buffer[q]
      BY <1>7, ThreadsAssumption DEF WriteRefused, WriteCall, WriteWake, IInv, TypeOK, Threads
    <2>5. Hidden' = Hidden
      BY <2>1, <2>2, <2>3, <2>4 DEF Hidden
    <2>6. Settled' = Settled
      BY <2>1, <2>5 DEF Settled
    <2> QED BY <1>1, <1>2, <2>6, Stutter
  <1> QED BY <1>3, <1>4, <1>5, <1>6, <1>7 DEF WriterStep

(* The driver's initial state is the abstract one. *)
LEMMA InitRefines == Init => Abstract!AInit
  <1> SUFFICES ASSUME Init PROVE Abstract!AInit
      OBVIOUS
  <1>1. Settled = <<>>
    <2>1. Hidden = 0
      BY ThreadsAssumption DEF Init, Hidden, Threads
    <2>2. Len(<<>>) < 0 + 1 /\ Len(<<>>) \in Int
      BY EmptySeq
    <2> QED BY <2>1, <2>2, SubSeqEmpty DEF Init, Settled
  <1>2. \A r \in Readers : PhaseOf(r) = "none" /\ TakenBy(r) = <<>>
    <2> TAKE r \in Readers
    <2>1. pc[r] = "idle" /\ ret[r] = 0 /\ count[r] = 0 /\ user_buffer[r] = <<>>
      BY DEF Init, Threads
    <2> QED BY <2>1 DEF PhaseOf, TakenBy
  <1> QED BY <1>1, <1>2 DEF Init, Abstract!AInit

(* The driver implements the abstract stack: whole reads and writes take
   effect at one moment each, whatever the interleaving. *)
THEOREM Refinement == Spec => ImplementsStack
  <1>1. IInv /\ IInv' /\ StoredInOrder /\ [Next]_vars => [Abstract!ANext]_(Abstract!absVars)
    <2> SUFFICES ASSUME IInv, IInv', StoredInOrder, [Next]_vars
                 PROVE  [Abstract!ANext]_(Abstract!absVars)
        OBVIOUS
    <2>1. CASE UNCHANGED vars
      BY <2>1 DEF vars, Abstract!absVars, Settled, Hidden, PhaseOf, TakenBy
    <2>2. CASE Next
      BY <2>2, ReaderRefines, WriterRefines DEF Next
    <2> QED BY <2>1, <2>2
  <1> QED BY <1>1, InitRefines, Invariant, Order, PTL DEF Spec, ImplementsStack, Abstract!ASpec
=============================================================================
