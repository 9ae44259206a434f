----------------------------- MODULE LifoProofs -----------------------------
(***************************************************************************)
(* The safety invariants of Lifo for any number of readers and writers,    *)
(* any characters, any capacity and any sizes of calls.                    *)
(***************************************************************************)
EXTENDS Lifo, TLAPS, SequenceTheorems

IInv == /\ TypeOK
        /\ MutexMatchesPC
        /\ SizeCounted
        /\ Bookkeeping
        /\ ReturnsTell
        /\ MissedOnlyByShortWrite

(* The driver starts in the invariant. *)
LEMMA InitInv == Init => IInv
  <1> SUFFICES ASSUME Init PROVE IInv
      OBVIOUS
  <1>1. TypeOK
    <2>1. pc \in [Threads -> ReaderPC \cup WriterPC]
      BY DEF Init, ReaderPC, WriterPC
    <2>2. \A r \in Readers : pc[r] \in ReaderPC
      BY DEF Init, ReaderPC, Threads
    <2>3. \A w \in Writers : pc[w] \in WriterPC
      BY DEF Init, WriterPC, Threads
    <2>4. temp_buffer \in [Threads -> Seq(Chars)] /\ user_buffer \in [Readers -> Seq(Chars)]
      BY DEF Init
    <2>5. lifo_stack \in Seq(Chars)
      BY DEF Init
    <2>6. nonblock \in [Readers -> BOOLEAN] /\ unannounced \in BOOLEAN
      BY Zenon DEF Init
    <2>7. lifo_mutex \in Threads \cup {NoThread}
      BY DEF Init
    <2>8. total_size \in Nat /\ ret \in [Threads -> Int] /\ count \in [Readers -> Nat]
          /\ bytes_read \in [Readers -> Nat] /\ pushed \in [Writers -> Nat]
      BY DEF Init
    <2> QED BY <2>1, <2>2, <2>3, <2>4, <2>5, <2>6, <2>7, <2>8 DEF TypeOK
  <1>2. MutexMatchesPC
      BY ThreadsAssumption DEF Init, MutexMatchesPC, Threads, Critical
  <1>3. SizeCounted
      BY SizesAssumption DEF Init, SizeCounted
  <1>4. Bookkeeping
      BY DEF Init, Bookkeeping, Threads
  <1>5. ReturnsTell
      BY EmptySeq DEF Init, ReturnsTell, Threads, EFAULT
  <1>6. MissedOnlyByShortWrite
      BY DEF Init, MissedOnlyByShortWrite
  <1> QED BY <1>1, <1>2, <1>3, <1>4, <1>5, <1>6 DEF IInv

(* The holder of the mutex is the only process in a critical section. *)
LEMMA HolderAlone ==
  ASSUME MutexMatchesPC, NEW t \in Threads, pc[t] \in Critical
  PROVE  \A u \in Threads \ {t} : pc[u] \notin Critical
  <1>1. lifo_mutex = t
    BY DEF MutexMatchesPC
  <1> QED BY <1>1 DEF MutexMatchesPC

(* A call starts: nothing shared changes. *)
LEMMA ReadCallInv == ASSUME IInv, NEW r \in Readers, ReadCall(r) PROVE IInv'
  <1> USE DEF ReadCall, Transition, shared
  <1>1. TypeOK'
    <2>1. PICK n \in Counts, nb \in BOOLEAN :
             /\ count' = [count EXCEPT ![r] = n]
             /\ nonblock' = [nonblock EXCEPT ![r] = nb]
      OBVIOUS
    <2>2. nonblock' \in [Readers -> BOOLEAN]
      BY <2>1, Zenon DEF IInv, TypeOK
    <2>3. count' \in [Readers -> Nat]
      BY <2>1, SizesAssumption DEF IInv, TypeOK
    <2>4. pc' \in [Threads -> ReaderPC \cup WriterPC]
      BY DEF IInv, TypeOK, Threads, ReaderPC
    <2>5. (\A t \in Readers : pc'[t] \in ReaderPC) /\ (\A w \in Writers : pc'[w] \in WriterPC)
      BY ThreadsAssumption DEF IInv, TypeOK, Threads, ReaderPC
    <2>6. user_buffer' \in [Readers -> Seq(Chars)]
      BY EmptySeq DEF IInv, TypeOK
    <2>7. ret' \in [Threads -> Int]
      <3>1. ret \in [Threads -> Int] /\ ret' = [ret EXCEPT ![r] = 0]
        BY DEF IInv, TypeOK
      <3>2. 0 \in Int
        OBVIOUS
      <3> QED BY <3>1, <3>2, Zenon
    <2> QED BY <2>2, <2>3, <2>4, <2>5, <2>6, <2>7 DEF IInv, TypeOK
  <1>2. MutexMatchesPC'
     BY ThreadsAssumption DEF IInv, TypeOK, Threads, MutexMatchesPC, Critical
  <1>3. SizeCounted'
     BY DEF IInv, TypeOK, SizeCounted, Bookkeeping
  <1>4. Bookkeeping'
     BY SMTT(30), ThreadsAssumption, SizesAssumption DEF IInv, TypeOK, Bookkeeping, Threads, MutexMatchesPC, Critical, ReaderPC, WriterPC, SizeCounted
  <1>5. ReturnsTell'
     BY ThreadsAssumption DEF IInv, TypeOK, ReturnsTell, Bookkeeping, Threads
  <1>6. MissedOnlyByShortWrite'
     BY SMTT(30), ThreadsAssumption DEF IInv, TypeOK, MissedOnlyByShortWrite, Bookkeeping, Threads, Announcing, lifo_read_queue
  <1> QED BY <1>1, <1>2, <1>3, <1>4, <1>5, <1>6 DEF IInv

(* End-of-file for a non-blocking read of an empty list. *)
LEMMA ReadCheckEmptyInv == ASSUME IInv, NEW r \in Readers, ReadCheckEmpty(r) PROVE IInv'
  <1> USE DEF ReadCheckEmpty, Return, request, shared, Transition
  <1>1. TypeOK'
     BY SizesAssumption DEF IInv, TypeOK, ReaderPC, WriterPC, Threads, SizeCounted
  <1>2. MutexMatchesPC'
     BY ThreadsAssumption DEF IInv, TypeOK, Threads, MutexMatchesPC, Critical
  <1>3. SizeCounted'
     BY DEF IInv, TypeOK, SizeCounted, Bookkeeping
  <1>4. Bookkeeping'
     BY ThreadsAssumption, SizesAssumption DEF IInv, TypeOK, Bookkeeping, Threads, MutexMatchesPC, Critical, ReaderPC, WriterPC, SizeCounted
  <1>5. ReturnsTell'
     BY ThreadsAssumption DEF IInv, TypeOK, ReturnsTell, Bookkeeping, Threads, EFAULT
  <1>6. MissedOnlyByShortWrite'
     BY ThreadsAssumption DEF IInv, TypeOK, MissedOnlyByShortWrite, Bookkeeping, Threads, Announcing, lifo_read_queue
  <1> QED BY <1>1, <1>2, <1>3, <1>4, <1>5, <1>6 DEF IInv

(* The test of O_NONBLOCK lets the read through. *)
LEMMA ReadCheckPassedInv == ASSUME IInv, NEW r \in Readers, ReadCheckPassed(r) PROVE IInv'
  <1> USE DEF ReadCheckPassed, Transition, request, shared
  <1>1. TypeOK'
     BY SizesAssumption DEF IInv, TypeOK, ReaderPC, WriterPC, Threads, SizeCounted
  <1>2. MutexMatchesPC'
     BY ThreadsAssumption DEF IInv, TypeOK, Threads, MutexMatchesPC, Critical
  <1>3. SizeCounted'
     BY DEF IInv, TypeOK, SizeCounted, Bookkeeping
  <1>4. Bookkeeping'
     BY ThreadsAssumption, SizesAssumption DEF IInv, TypeOK, Bookkeeping, Threads, MutexMatchesPC, Critical, ReaderPC, WriterPC, SizeCounted
  <1>5. ReturnsTell'
     BY ThreadsAssumption DEF IInv, TypeOK, ReturnsTell, Bookkeeping, Threads
  <1>6. MissedOnlyByShortWrite'
     BY ThreadsAssumption DEF IInv, TypeOK, MissedOnlyByShortWrite, Bookkeeping, Threads, Announcing, lifo_read_queue
  <1> QED BY <1>1, <1>2, <1>3, <1>4, <1>5, <1>6 DEF IInv

(* A reader goes to sleep only beside an empty list. *)
LEMMA ReadWaitInv == ASSUME IInv, NEW r \in Readers, ReadWait(r) PROVE IInv'
  <1> USE DEF ReadWait, Transition, request, shared
  <1>1. TypeOK'
     BY SizesAssumption DEF IInv, TypeOK, ReaderPC, WriterPC, Threads, SizeCounted
  <1>2. MutexMatchesPC'
     BY ThreadsAssumption DEF IInv, TypeOK, Threads, MutexMatchesPC, Critical
  <1>3. SizeCounted'
     BY DEF IInv, TypeOK, SizeCounted, Bookkeeping
  <1>4. Bookkeeping'
     BY ThreadsAssumption, SizesAssumption DEF IInv, TypeOK, Bookkeeping, Threads, MutexMatchesPC, Critical, ReaderPC, WriterPC, SizeCounted
  <1>5. ReturnsTell'
     BY ThreadsAssumption DEF IInv, TypeOK, ReturnsTell, Bookkeeping, Threads
  <1>6. MissedOnlyByShortWrite'
     BY ThreadsAssumption DEF IInv, TypeOK, MissedOnlyByShortWrite, Bookkeeping, Threads, Announcing, lifo_read_queue
  <1> QED BY <1>1, <1>2, <1>3, <1>4, <1>5, <1>6 DEF IInv

(* A signal takes a sleeper off the queue. *)
LEMMA ReadInterruptedInv == ASSUME IInv, NEW r \in Readers, ReadInterrupted(r) PROVE IInv'
  <1> USE DEF ReadInterrupted, Return, request, shared, Transition
  <1>1. TypeOK'
     BY SizesAssumption DEF IInv, TypeOK, ReaderPC, WriterPC, Threads, SizeCounted, ERESTARTSYS
  <1>2. MutexMatchesPC'
     BY ThreadsAssumption DEF IInv, TypeOK, Threads, MutexMatchesPC, Critical
  <1>3. SizeCounted'
     BY DEF IInv, TypeOK, SizeCounted, Bookkeeping
  <1>4. Bookkeeping'
     BY ThreadsAssumption, SizesAssumption DEF IInv, TypeOK, Bookkeeping, Threads, MutexMatchesPC, Critical, ReaderPC, WriterPC, SizeCounted
  <1>5. ReturnsTell'
    <2>1. ret'[r] = ERESTARTSYS /\ user_buffer'[r] = <<>>
      BY DEF IInv, TypeOK, Bookkeeping, Threads
    <2>2. ret'[r] # EFAULT /\ Len(user_buffer'[r]) = IF ret'[r] > 0 THEN ret'[r] ELSE 0
      BY <2>1, EmptySeq DEF ERESTARTSYS, EFAULT
    <2>3. \A t \in Threads \ {r} : pc'[t] = pc[t] /\ ret'[t] = ret[t]
      BY DEF IInv, TypeOK
    <2> QED BY <2>2, <2>3, ThreadsAssumption DEF IInv, ReturnsTell, Threads
  <1>6. MissedOnlyByShortWrite'
     BY ThreadsAssumption DEF IInv, TypeOK, MissedOnlyByShortWrite, Bookkeeping, Threads, Announcing, lifo_read_queue
  <1> QED BY <1>1, <1>2, <1>3, <1>4, <1>5, <1>6 DEF IInv

(* A signal beside data sends a sleeper on to the mutex. *)
LEMMA ReadSignalledInv == ASSUME IInv, NEW r \in Readers, ReadSignalled(r) PROVE IInv'
  <1> USE DEF ReadSignalled, Transition, request, shared
  <1>1. TypeOK'
     BY SizesAssumption DEF IInv, TypeOK, ReaderPC, WriterPC, Threads, SizeCounted
  <1>2. MutexMatchesPC'
     BY ThreadsAssumption DEF IInv, TypeOK, Threads, MutexMatchesPC, Critical
  <1>3. SizeCounted'
     BY DEF IInv, TypeOK, SizeCounted, Bookkeeping
  <1>4. Bookkeeping'
     BY ThreadsAssumption, SizesAssumption DEF IInv, TypeOK, Bookkeeping, Threads, MutexMatchesPC, Critical, ReaderPC, WriterPC, SizeCounted
  <1>5. ReturnsTell'
     BY ThreadsAssumption DEF IInv, TypeOK, ReturnsTell, Bookkeeping, Threads
  <1>6. MissedOnlyByShortWrite'
     BY ThreadsAssumption DEF IInv, TypeOK, MissedOnlyByShortWrite, Bookkeeping, Threads, Announcing, lifo_read_queue
  <1> QED BY <1>1, <1>2, <1>3, <1>4, <1>5, <1>6 DEF IInv

(* A free mutex is taken by one reader. *)
LEMMA ReadLockInv == ASSUME IInv, NEW r \in Readers, ReadLock(r) PROVE IInv'
  <1> USE DEF ReadLock, Transition, mutex_lock, request, shared
  <1>1. TypeOK'
     BY SizesAssumption DEF IInv, TypeOK, ReaderPC, WriterPC, Threads, SizeCounted
  <1>2. MutexMatchesPC'
     BY ThreadsAssumption DEF IInv, TypeOK, Threads, MutexMatchesPC, Critical
  <1>3. SizeCounted'
     BY DEF IInv, TypeOK, SizeCounted, Bookkeeping
  <1>4. Bookkeeping'
     BY ThreadsAssumption, SizesAssumption DEF IInv, TypeOK, Bookkeeping, Threads, MutexMatchesPC, Critical, ReaderPC, WriterPC, SizeCounted
  <1>5. ReturnsTell'
     BY ThreadsAssumption DEF IInv, TypeOK, ReturnsTell, Bookkeeping, Threads
  <1>6. MissedOnlyByShortWrite'
     BY ThreadsAssumption DEF IInv, TypeOK, MissedOnlyByShortWrite, Bookkeeping, Threads, Announcing, lifo_read_queue
  <1> QED BY <1>1, <1>2, <1>3, <1>4, <1>5, <1>6 DEF IInv

(* The second test finds nothing: the mutex is given back. *)
LEMMA ReadNothingInv == ASSUME IInv, NEW r \in Readers, ReadNothing(r) PROVE IInv'
  <1> USE DEF ReadNothing, Return, mutex_unlock, ReadSize, request, shared, Transition, Smaller
  <1>1. TypeOK'
     BY SizesAssumption DEF IInv, TypeOK, ReaderPC, WriterPC, Threads, SizeCounted
  <1>2. MutexMatchesPC'
     BY ThreadsAssumption DEF IInv, TypeOK, Threads, MutexMatchesPC, Critical
  <1>3. SizeCounted'
     BY DEF IInv, TypeOK, SizeCounted, Bookkeeping
  <1>4. Bookkeeping'
     BY ThreadsAssumption, SizesAssumption DEF IInv, TypeOK, Bookkeeping, Threads, MutexMatchesPC, Critical, ReaderPC, WriterPC, SizeCounted
  <1>5. ReturnsTell'
    <2>1. ret'[r] = 0 /\ user_buffer'[r] = <<>>
      BY DEF IInv, TypeOK, Bookkeeping, Threads
    <2>2. ret'[r] # EFAULT /\ Len(user_buffer'[r]) = IF ret'[r] > 0 THEN ret'[r] ELSE 0
      BY <2>1, EmptySeq DEF EFAULT
    <2>3. \A t \in Threads \ {r} : pc'[t] = pc[t] /\ ret'[t] = ret[t]
      BY DEF IInv, TypeOK
    <2> QED BY <2>2, <2>3, ThreadsAssumption DEF IInv, ReturnsTell, Threads
  <1>6. MissedOnlyByShortWrite'
     BY ThreadsAssumption DEF IInv, TypeOK, MissedOnlyByShortWrite, Bookkeeping, Threads, Announcing, lifo_read_queue
  <1> QED BY <1>1, <1>2, <1>3, <1>4, <1>5, <1>6 DEF IInv

(* No kernel buffer: the mutex is given back. *)
LEMMA ReadNoMemoryInv == ASSUME IInv, NEW r \in Readers, ReadNoMemory(r) PROVE IInv'
  <1> USE DEF ReadNoMemory, Return, mutex_unlock, ReadSize, request, shared, Transition, Smaller
  <1>1. TypeOK'
     BY SMTT(30), SizesAssumption DEF IInv, TypeOK, ReaderPC, WriterPC, Threads, SizeCounted, ENOMEM
  <1>2. MutexMatchesPC'
     BY ThreadsAssumption DEF IInv, TypeOK, Threads, MutexMatchesPC, Critical
  <1>3. SizeCounted'
     BY DEF IInv, TypeOK, SizeCounted, Bookkeeping
  <1>4. Bookkeeping'
     BY ThreadsAssumption, SizesAssumption DEF IInv, TypeOK, Bookkeeping, Threads, MutexMatchesPC, Critical, ReaderPC, WriterPC, SizeCounted
  <1>5. ReturnsTell'
    <2>1. ret'[r] = ENOMEM /\ user_buffer'[r] = <<>>
      BY DEF IInv, TypeOK, Bookkeeping, Threads
    <2>2. ret'[r] # EFAULT /\ Len(user_buffer'[r]) = IF ret'[r] > 0 THEN ret'[r] ELSE 0
      BY <2>1, EmptySeq DEF ENOMEM, EFAULT
    <2>3. \A t \in Threads \ {r} : pc'[t] = pc[t] /\ ret'[t] = ret[t]
      BY DEF IInv, TypeOK
    <2> QED BY <2>2, <2>3, ThreadsAssumption DEF IInv, ReturnsTell, Threads
  <1>6. MissedOnlyByShortWrite'
     BY ThreadsAssumption DEF IInv, TypeOK, MissedOnlyByShortWrite, Bookkeeping, Threads, Announcing, lifo_read_queue
  <1> QED BY <1>1, <1>2, <1>3, <1>4, <1>5, <1>6 DEF IInv

(* The loop bound is at most the length of the list. *)
LEMMA ReadAllocatedInv == ASSUME IInv, NEW r \in Readers, ReadAllocated(r) PROVE IInv'
  <1> USE DEF ReadAllocated, Transition, ReadSize, request, shared, Smaller
  <1>1. TypeOK'
     BY SizesAssumption DEF IInv, TypeOK, ReaderPC, WriterPC, Threads, SizeCounted
  <1>2. MutexMatchesPC'
     BY ThreadsAssumption DEF IInv, TypeOK, Threads, MutexMatchesPC, Critical
  <1>3. SizeCounted'
     BY DEF IInv, TypeOK, SizeCounted, Bookkeeping
  <1>4. Bookkeeping'
    <2>1. /\ ReadSize(r) \in Nat /\ ReadSize(r) <= count[r] /\ ReadSize(r) <= Len(lifo_stack)
          /\ ReadSize(r) > 0 /\ bytes_read' = [bytes_read EXCEPT ![r] = ReadSize(r)]
      BY LenProperties DEF IInv, TypeOK, SizeCounted
    <2>2. Len(temp_buffer[r]) = 0
      <3>1. bytes_read[r] = 0 /\ Len(temp_buffer[r]) <= bytes_read[r]
        BY DEF IInv, Bookkeeping
      <3> QED BY <3>1, LenProperties DEF IInv, TypeOK, Threads
    <2> HIDE DEF ReadSize
    <2> QED BY <2>1, <2>2, SMTT(30), ThreadsAssumption, SizesAssumption DEF IInv, TypeOK, Bookkeeping, Threads, ReaderPC, WriterPC
  <1>5. ReturnsTell'
     BY ThreadsAssumption DEF IInv, TypeOK, ReturnsTell, Bookkeeping, Threads
  <1>6. MissedOnlyByShortWrite'
     BY ThreadsAssumption DEF IInv, TypeOK, MissedOnlyByShortWrite, Bookkeeping, Threads, Announcing, lifo_read_queue
  <1> QED BY <1>1, <1>2, <1>3, <1>4, <1>5, <1>6 DEF IInv

(* One pop: list, size and kernel buffer move together. *)
LEMMA ReadPopInv == ASSUME IInv, NEW r \in Readers, ReadPop(r) PROVE IInv'
  <1> USE DEF ReadPop, Transition, Popping, request
  <1>1. TypeOK'
    <2>1. /\ Tail(lifo_stack) \in Seq(Chars)
          /\ Head(lifo_stack) \in Chars
      BY HeadTailProperties DEF IInv, TypeOK
    <2>2. Append(temp_buffer[r], Head(lifo_stack)) \in Seq(Chars)
      BY <2>1, AppendProperties DEF IInv, TypeOK, Threads
    <2>3. total_size - 1 \in Nat
      BY EmptySeq DEF IInv, TypeOK, SizeCounted
    <2>4. pc' = pc
      BY DEF IInv, TypeOK
    <2> QED BY <2>1, <2>2, <2>3, <2>4 DEF IInv, TypeOK
  <1>2. MutexMatchesPC'
     BY ThreadsAssumption DEF IInv, TypeOK, Threads, MutexMatchesPC, Critical
  <1>3. SizeCounted'
    <2>1. Len(Tail(lifo_stack)) = Len(lifo_stack) - 1 /\ Len(lifo_stack) \in Nat
      BY HeadTailProperties, LenProperties DEF IInv, TypeOK
    <2> QED BY <2>1, SizesAssumption DEF IInv, SizeCounted
  <1>4. Bookkeeping'
    <2>1. /\ Len(Tail(lifo_stack)) = Len(lifo_stack) - 1
          /\ Head(lifo_stack) \in Chars
      BY HeadTailProperties DEF IInv, TypeOK
    <2>2. Len(Append(temp_buffer[r], Head(lifo_stack))) = Len(temp_buffer[r]) + 1
      BY <2>1, AppendProperties DEF IInv, TypeOK, Threads
    <2>3. \A u \in Threads \ {r} : pc[u] \notin Critical
      BY HolderAlone DEF IInv, Critical, Threads
    <2>4. /\ \A t \in Readers \ {r} : pc[t] # "r_pop"
          /\ \A w \in Writers : pc[w] # "w_push"
      BY <2>3, ThreadsAssumption DEF Critical, Threads
    <2>5. /\ temp_buffer' = [temp_buffer EXCEPT ![r] = Append(@, Head(lifo_stack))]
          /\ lifo_stack' = Tail(lifo_stack) /\ pc' = pc /\ UNCHANGED <<bytes_read, count, user_buffer, pushed>>
      BY DEF IInv, TypeOK
    <2>6. ASSUME NEW q \in Readers
          PROVE  /\ Len(temp_buffer'[q]) <= bytes_read'[q]
                 /\ bytes_read'[q] <= count'[q]
                 /\ bytes_read'[q] - Len(temp_buffer'[q]) <= Len(lifo_stack')
                 /\ pc'[q] # "idle" => user_buffer'[q] = <<>>
                 /\ pc'[q] # "r_pop" => bytes_read'[q] = 0
                 /\ pc'[q] = "r_pop" => bytes_read'[q] > 0
      <3>1. CASE q = r
        BY SMTT(30), <2>1, <2>2, <2>5, <3>1, LenProperties DEF IInv, TypeOK, Bookkeeping, Threads
      <3>2. CASE q # r
        <4>1. bytes_read[q] = 0 /\ temp_buffer'[q] = temp_buffer[q]
          BY <2>4, <2>5, <3>2 DEF IInv, TypeOK, Bookkeeping, Threads
        <4>2. Len(temp_buffer[q]) \in Nat /\ Len(Tail(lifo_stack)) \in Nat
          BY LenProperties, HeadTailProperties DEF IInv, TypeOK, Threads
        <4> QED BY <2>5, <4>1, <4>2 DEF IInv, Bookkeeping
      <3> QED BY <3>1, <3>2
    <2>7. ASSUME NEW w \in Writers
          PROVE  temp_buffer'[w] = temp_buffer[w] /\ pc[w] # "w_push"
      BY <2>4, <2>5, ThreadsAssumption DEF IInv, TypeOK, Threads
    <2> QED BY <2>5, <2>6, <2>7 DEF IInv, Bookkeeping
  <1>5. ReturnsTell'
     BY ThreadsAssumption DEF IInv, TypeOK, ReturnsTell, Bookkeeping, Threads
  <1>6. MissedOnlyByShortWrite'
     BY ThreadsAssumption DEF IInv, TypeOK, MissedOnlyByShortWrite, Bookkeeping, Threads, Announcing, lifo_read_queue
  <1> QED BY <1>1, <1>2, <1>3, <1>4, <1>5, <1>6 DEF IInv

(* The read ends with all of its characters copied out. *)
LEMMA ReadCopiedInv == ASSUME IInv, NEW r \in Readers, ReadCopied(r) PROVE IInv'
  <1> USE DEF ReadCopied, Return, mutex_unlock, Popping, request, shared, Transition
  <1>1. TypeOK'
     BY SizesAssumption DEF IInv, TypeOK, ReaderPC, WriterPC, Threads, SizeCounted
  <1>2. MutexMatchesPC'
     BY ThreadsAssumption DEF IInv, TypeOK, Threads, MutexMatchesPC, Critical
  <1>3. SizeCounted'
     BY DEF IInv, TypeOK, SizeCounted, Bookkeeping
  <1>4. Bookkeeping'
     BY ThreadsAssumption, SizesAssumption DEF IInv, TypeOK, Bookkeeping, Threads, MutexMatchesPC, Critical, ReaderPC, WriterPC, SizeCounted
  <1>5. ReturnsTell'
     BY SMTT(30), ThreadsAssumption DEF IInv, TypeOK, ReturnsTell, Bookkeeping, Threads, EFAULT
  <1>6. MissedOnlyByShortWrite'
     BY ThreadsAssumption DEF IInv, TypeOK, MissedOnlyByShortWrite, Bookkeeping, Threads, Announcing, lifo_read_queue
  <1> QED BY <1>1, <1>2, <1>3, <1>4, <1>5, <1>6 DEF IInv

(* The read ends with a part of its characters lost, and the mutex given back. *)
LEMMA ReadFaultInv == ASSUME IInv, NEW r \in Readers, ReadFault(r) PROVE IInv'
  <1> USE DEF ReadFault, Return, mutex_unlock, Popping, request, shared, Transition
  <1>0. PICK k \in 0 .. bytes_read[r] - 1 :
           user_buffer' = [user_buffer EXCEPT ![r] = SubSeq(temp_buffer[r], 1, k)]
    BY DEF CopiedInPart
  <1> DEFINE part == SubSeq(temp_buffer[r], 1, k)
  <1>p. part \in Seq(Chars) /\ Len(part) < count[r]
    <2>1. /\ temp_buffer[r] \in Seq(Chars) /\ Len(temp_buffer[r]) = bytes_read[r]
          /\ bytes_read[r] \in Nat /\ count[r] \in Nat /\ bytes_read[r] <= count[r]
          /\ k \in Nat /\ k < bytes_read[r]
      BY LenProperties, EmptySeq DEF IInv, TypeOK, Bookkeeping, Threads
    <2>2. \A i \in 1 .. k : temp_buffer[r][i] \in Chars
      BY <2>1, ElementOfSeq
    <2>3. SubSeq(temp_buffer[r], 1, k) \in Seq(Chars) /\ Len(SubSeq(temp_buffer[r], 1, k)) = k
      BY <2>1, <2>2, SubSeqProperties
    <2> QED BY <2>1, <2>3
  <1>u. user_buffer' = [user_buffer EXCEPT ![r] = part]
    BY <1>0
  <1> HIDE DEF part
  <1>1. TypeOK'
     BY <1>p, <1>u, SizesAssumption DEF IInv, TypeOK, ReaderPC, WriterPC, Threads, SizeCounted, EFAULT
  <1>2. MutexMatchesPC'
     BY ThreadsAssumption DEF IInv, TypeOK, Threads, MutexMatchesPC, Critical
  <1>3. SizeCounted'
     BY DEF IInv, TypeOK, SizeCounted, Bookkeeping
  <1>4. Bookkeeping'
     BY <1>u, ThreadsAssumption, SizesAssumption DEF IInv, TypeOK, Bookkeeping, Threads, MutexMatchesPC, Critical, ReaderPC, WriterPC, SizeCounted
  <1>5. ReturnsTell'
     <2>1. pc'[r] = "idle" /\ ret'[r] = EFAULT /\ user_buffer'[r] = part /\ count' = count
       BY <1>u DEF IInv, TypeOK, Threads
     <2>2. /\ \A t \in Threads \ {r} : pc'[t] = pc[t] /\ ret'[t] = ret[t]
           /\ \A q \in Readers \ {r} : user_buffer'[q] = user_buffer[q]
           /\ pushed' = pushed
       BY <1>u DEF IInv, TypeOK
     <2> QED BY <1>p, <2>1, <2>2, ThreadsAssumption DEF IInv, ReturnsTell, Threads
  <1>6. MissedOnlyByShortWrite'
     BY ThreadsAssumption DEF IInv, TypeOK, MissedOnlyByShortWrite, Bookkeeping, Threads, Announcing, lifo_read_queue
  <1> QED BY <1>1, <1>2, <1>3, <1>4, <1>5, <1>6 DEF IInv

(* A write that ends before the mutex stored nothing. *)
LEMMA WriteRefusedInv == ASSUME IInv, NEW w \in Writers, WriteRefused(w) PROVE IInv'
  <1> USE DEF WriteRefused, Return, shared, reader, Transition, request
  <1>1. TypeOK'
     BY SizesAssumption DEF IInv, TypeOK, ReaderPC, WriterPC, Threads, SizeCounted, ENOMEM, EFAULT
  <1>2. MutexMatchesPC'
     BY ThreadsAssumption DEF IInv, TypeOK, Threads, MutexMatchesPC, Critical
  <1>3. SizeCounted'
     BY DEF IInv, TypeOK, SizeCounted, Bookkeeping
  <1>4. Bookkeeping'
     BY ThreadsAssumption, SizesAssumption DEF IInv, TypeOK, Bookkeeping, Threads, MutexMatchesPC, Critical, ReaderPC, WriterPC, SizeCounted
  <1>5. ReturnsTell'
     BY ThreadsAssumption DEF IInv, TypeOK, ReturnsTell, Bookkeeping, Threads, ENOMEM, EFAULT
  <1>6. MissedOnlyByShortWrite'
    <2>1. PICK v \in {0, ENOMEM, EFAULT} : Return(w, "idle", v)
      OBVIOUS
    <2> QED BY <2>1, ThreadsAssumption DEF IInv, TypeOK, MissedOnlyByShortWrite, Threads, Announcing, lifo_read_queue
  <1> QED BY <1>1, <1>2, <1>3, <1>4, <1>5, <1>6 DEF IInv

(* A write starts with its text in the kernel buffer. *)
LEMMA WriteCallInv == ASSUME IInv, NEW w \in Writers, WriteCall(w) PROVE IInv'
  <1> USE DEF WriteCall, Transition, Clamped, shared, reader, Smaller, request
  <1>1. TypeOK'
    <2>1. PICK n \in 1 .. MaxWrite : \E text \in [1 .. n -> Chars] :
             temp_buffer' = [temp_buffer EXCEPT ![w] = Clamped(text)]
      OBVIOUS
    <2>2. PICK text \in [1 .. n -> Chars] : temp_buffer' = [temp_buffer EXCEPT ![w] = Clamped(text)]
      BY <2>1
    <2>3. Clamped(text) \in Seq(Chars)
      BY <2>2, SubSeqProperties, SizesAssumption
    <2>4. temp_buffer' \in [Threads -> Seq(Chars)]
      BY <2>2, <2>3 DEF IInv, TypeOK
    <2>5. (\A r \in Readers : pc'[r] \in ReaderPC) /\ (\A u \in Writers : pc'[u] \in WriterPC)
      BY ThreadsAssumption DEF IInv, TypeOK, Threads, WriterPC
    <2>6. pc' \in [Threads -> ReaderPC \cup WriterPC]
      BY DEF IInv, TypeOK, Threads, WriterPC
    <2> QED BY SMTT(30), <2>4, <2>5, <2>6 DEF IInv, TypeOK
  <1>2. MutexMatchesPC'
     BY ThreadsAssumption DEF IInv, TypeOK, Threads, MutexMatchesPC, Critical
  <1>3. SizeCounted'
     BY DEF IInv, TypeOK, SizeCounted, Bookkeeping
  <1>4. Bookkeeping'
     BY SMTT(30), ThreadsAssumption, SizesAssumption DEF IInv, TypeOK, Bookkeeping, Threads, MutexMatchesPC, Critical, ReaderPC, WriterPC, SizeCounted
  <1>5. ReturnsTell'
     BY ThreadsAssumption DEF IInv, TypeOK, ReturnsTell, Bookkeeping, Threads
  <1>6. MissedOnlyByShortWrite'
     BY ThreadsAssumption DEF IInv, TypeOK, MissedOnlyByShortWrite, Bookkeeping, Threads, Announcing, lifo_read_queue
  <1> QED BY <1>1, <1>2, <1>3, <1>4, <1>5, <1>6 DEF IInv

(* A free mutex is taken by one writer. *)
LEMMA WriteLockInv == ASSUME IInv, NEW w \in Writers, WriteLock(w) PROVE IInv'
  <1> USE DEF WriteLock, Transition, mutex_lock, shared, reader, request
  <1>1. TypeOK'
     BY SizesAssumption DEF IInv, TypeOK, ReaderPC, WriterPC, Threads, SizeCounted
  <1>2. MutexMatchesPC'
     BY ThreadsAssumption DEF IInv, TypeOK, Threads, MutexMatchesPC, Critical
  <1>3. SizeCounted'
     BY DEF IInv, TypeOK, SizeCounted, Bookkeeping
  <1>4. Bookkeeping'
     BY ThreadsAssumption, SizesAssumption DEF IInv, TypeOK, Bookkeeping, Threads, MutexMatchesPC, Critical, ReaderPC, WriterPC, SizeCounted
  <1>5. ReturnsTell'
     BY ThreadsAssumption DEF IInv, TypeOK, ReturnsTell, Bookkeeping, Threads
  <1>6. MissedOnlyByShortWrite'
     BY ThreadsAssumption DEF IInv, TypeOK, MissedOnlyByShortWrite, Bookkeeping, Threads, Announcing, lifo_read_queue
  <1> QED BY <1>1, <1>2, <1>3, <1>4, <1>5, <1>6 DEF IInv

(* A write that does not fit stores nothing. *)
LEMMA WriteNoSpaceInv == ASSUME IInv, NEW w \in Writers, WriteNoSpace(w) PROVE IInv'
  <1> USE DEF WriteNoSpace, Return, mutex_unlock, Fits, shared, reader, Transition, request
  <1>1. TypeOK'
     BY SizesAssumption DEF IInv, TypeOK, ReaderPC, WriterPC, Threads, SizeCounted, ENOSPC
  <1>2. MutexMatchesPC'
     BY ThreadsAssumption DEF IInv, TypeOK, Threads, MutexMatchesPC, Critical
  <1>3. SizeCounted'
     BY DEF IInv, TypeOK, SizeCounted, Bookkeeping
  <1>4. Bookkeeping'
     BY ThreadsAssumption, SizesAssumption DEF IInv, TypeOK, Bookkeeping, Threads, MutexMatchesPC, Critical, ReaderPC, WriterPC, SizeCounted
  <1>5. ReturnsTell'
     BY ThreadsAssumption DEF IInv, TypeOK, ReturnsTell, Bookkeeping, Threads, ENOSPC
  <1>6. MissedOnlyByShortWrite'
     BY ThreadsAssumption DEF IInv, TypeOK, MissedOnlyByShortWrite, Bookkeeping, Threads, Announcing, lifo_read_queue
  <1> QED BY <1>1, <1>2, <1>3, <1>4, <1>5, <1>6 DEF IInv

(* The whole text fits. *)
LEMMA WriteHasSpaceInv == ASSUME IInv, NEW w \in Writers, WriteHasSpace(w) PROVE IInv'
  <1> USE DEF WriteHasSpace, Transition, Fits, shared, reader, request
  <1>1. TypeOK'
     BY SizesAssumption DEF IInv, TypeOK, ReaderPC, WriterPC, Threads, SizeCounted
  <1>2. MutexMatchesPC'
     BY ThreadsAssumption DEF IInv, TypeOK, Threads, MutexMatchesPC, Critical
  <1>3. SizeCounted'
     BY DEF IInv, TypeOK, SizeCounted, Bookkeeping
  <1>4. Bookkeeping'
     BY ThreadsAssumption, SizesAssumption DEF IInv, TypeOK, Bookkeeping, Threads, MutexMatchesPC, Critical, ReaderPC, WriterPC, SizeCounted
  <1>5. ReturnsTell'
     BY ThreadsAssumption DEF IInv, TypeOK, ReturnsTell, Bookkeeping, Threads
  <1>6. MissedOnlyByShortWrite'
     BY ThreadsAssumption DEF IInv, TypeOK, MissedOnlyByShortWrite, Bookkeeping, Threads, Announcing, lifo_read_queue
  <1> QED BY <1>1, <1>2, <1>3, <1>4, <1>5, <1>6 DEF IInv

(* One push: list, size and loop counter move together, within the capacity. *)
LEMMA WritePushInv == ASSUME IInv, NEW w \in Writers, WritePush(w) PROVE IInv'
  <1> USE DEF WritePush, Transition, reader, request
  <1>1. TypeOK'
    <2> DEFINE c == temp_buffer[w][pushed[w] + 1]
    <2>1. c \in Chars
      BY ElementOfSeq DEF IInv, TypeOK, Threads
    <2>2. <<c>> \in Seq(Chars) /\ lifo_stack \in Seq(Chars)
      BY <2>1 DEF IInv, TypeOK
    <2>3. <<c>> \o lifo_stack \in Seq(Chars)
      BY <2>2, ConcatProperties
    <2>4. pc' = pc
      BY DEF IInv, TypeOK
    <2>5. lifo_stack' \in Seq(Chars)
      BY <2>3
    <2>6. total_size' \in Nat /\ pushed' \in [Writers -> Nat]
      BY DEF IInv, TypeOK
    <2> QED BY <2>4, <2>5, <2>6 DEF IInv, TypeOK
  <1>2. MutexMatchesPC'
     BY ThreadsAssumption DEF IInv, TypeOK, Threads, MutexMatchesPC, Critical
  <1>3. SizeCounted'
    <2> DEFINE c == temp_buffer[w][pushed[w] + 1]
    <2>1. <<c>> \in Seq(Chars) /\ Len(<<c>>) = 1
      BY ElementOfSeq DEF IInv, TypeOK, Threads
    <2>2. Len(<<c>> \o lifo_stack) = Len(lifo_stack) + 1
      BY <2>1, ConcatProperties DEF IInv, TypeOK
    <2>3. Len(lifo_stack) + Len(temp_buffer[w]) - pushed[w] <= LIFO_MAX_SIZE
      BY DEF IInv, Bookkeeping
    <2> QED BY <2>2, <2>3, LenProperties, SizesAssumption DEF IInv, TypeOK, SizeCounted, Threads
  <1>4. Bookkeeping'
    <2> DEFINE c == temp_buffer[w][pushed[w] + 1]
    <2>1. <<c>> \in Seq(Chars) /\ Len(<<c>>) = 1
      BY ElementOfSeq DEF IInv, TypeOK, Threads
    <2>2. Len(<<c>> \o lifo_stack) = Len(lifo_stack) + 1
      BY <2>1, ConcatProperties DEF IInv, TypeOK
    <2>3. \A u \in Threads \ {w} : pc[u] \notin Critical
      BY HolderAlone DEF IInv, Critical, Threads
    <2>4. /\ \A r \in Readers : pc[r] # "r_pop"
          /\ \A u \in Writers \ {w} : pc[u] # "w_push"
      BY <2>3, ThreadsAssumption DEF Critical, Threads
    <2>5. /\ lifo_stack' = <<c>> \o lifo_stack /\ pushed' = [pushed EXCEPT ![w] = @ + 1]
          /\ pc' = pc /\ UNCHANGED <<temp_buffer, bytes_read, count, user_buffer>>
      BY DEF IInv, TypeOK
    <2>6. Len(lifo_stack) \in Nat /\ pushed[w] \in Nat /\ Len(temp_buffer[w]) \in Nat
      BY LenProperties DEF IInv, TypeOK, Threads
    <2>7. ASSUME NEW u \in Writers
          PROVE  /\ pc[u] = "idle" => temp_buffer[u] = <<>>
                 /\ pc[u] # "idle" => pushed'[u] <= Len(temp_buffer[u]) /\ Len(temp_buffer[u]) > 0
                 /\ pc[u] \in {"w_lock", "w_space"} => pushed'[u] = 0
                 /\ pc[u] = "w_push" =>
                       /\ Len(lifo_stack') + Len(temp_buffer[u]) - pushed'[u] <= LIFO_MAX_SIZE
                       /\ pushed'[u] <= Len(lifo_stack')
                 /\ pc[u] = "w_wake" => pushed'[u] = Len(temp_buffer[u])
      <3>1. CASE u = w
        BY <2>2, <2>5, <2>6, <3>1, SizesAssumption DEF IInv, TypeOK, Bookkeeping
      <3>2. CASE u # w
        BY <2>4, <2>5, <3>2 DEF IInv, TypeOK, Bookkeeping
      <3> QED BY <3>1, <3>2
    <2>8. ASSUME NEW r \in Readers
          PROVE  bytes_read[r] - Len(temp_buffer[r]) <= Len(lifo_stack')
      <3>1. Len(temp_buffer[r]) \in Nat /\ bytes_read[r] = 0
        BY <2>4, LenProperties DEF IInv, TypeOK, Bookkeeping, Threads
      <3> QED BY <3>1, <2>2, <2>5, <2>6
    <2> QED BY <2>5, <2>7, <2>8 DEF IInv, Bookkeeping
  <1>5. ReturnsTell'
     BY ThreadsAssumption DEF IInv, TypeOK, ReturnsTell, Bookkeeping, Threads
  <1>6. MissedOnlyByShortWrite'
     BY ThreadsAssumption DEF IInv, TypeOK, MissedOnlyByShortWrite, Bookkeeping, Threads, Announcing, lifo_read_queue
  <1> QED BY <1>1, <1>2, <1>3, <1>4, <1>5, <1>6 DEF IInv

(* A write cut short reports what it stored, and owes a wake-up. *)
LEMMA WriteCutShortInv == ASSUME IInv, NEW w \in Writers, WriteCutShort(w) PROVE IInv'
  <1> USE DEF WriteCutShort, Return, mutex_unlock, reader, Transition, request
  <1>1. TypeOK'
     BY SizesAssumption DEF IInv, TypeOK, ReaderPC, WriterPC, Threads, SizeCounted, ENOMEM
  <1>2. MutexMatchesPC'
     BY ThreadsAssumption DEF IInv, TypeOK, Threads, MutexMatchesPC, Critical
  <1>3. SizeCounted'
     BY DEF IInv, TypeOK, SizeCounted, Bookkeeping
  <1>4. Bookkeeping'
     BY ThreadsAssumption, SizesAssumption DEF IInv, TypeOK, Bookkeeping, Threads, MutexMatchesPC, Critical, ReaderPC, WriterPC, SizeCounted
  <1>5. ReturnsTell'
    <2>1. /\ ret'[w] = IF pushed[w] > 0 THEN pushed[w] ELSE ENOMEM
          /\ pushed[w] \in Nat
      BY DEF IInv, TypeOK, Threads
    <2>2. pushed'[w] = IF ret'[w] > 0 THEN ret'[w] ELSE 0
      BY <2>1 DEF ENOMEM
    <2>3. \A t \in Threads \ {w} : pc'[t] = pc[t] /\ ret'[t] = ret[t]
      BY DEF IInv, TypeOK
    <2> QED BY <2>2, <2>3, ThreadsAssumption DEF IInv, ReturnsTell, Threads
  <1>6. MissedOnlyByShortWrite'
     BY ThreadsAssumption DEF IInv, TypeOK, MissedOnlyByShortWrite, Bookkeeping, Threads, Announcing, lifo_read_queue
  <1> QED BY <1>1, <1>2, <1>3, <1>4, <1>5, <1>6 DEF IInv

(* A whole write is on its way to the wake-up. *)
LEMMA WriteUnlockInv == ASSUME IInv, NEW w \in Writers, WriteUnlock(w) PROVE IInv'
  <1> USE DEF WriteUnlock, Transition, mutex_unlock, shared, reader, request
  <1>1. TypeOK'
     BY SizesAssumption DEF IInv, TypeOK, ReaderPC, WriterPC, Threads, SizeCounted
  <1>2. MutexMatchesPC'
     BY ThreadsAssumption DEF IInv, TypeOK, Threads, MutexMatchesPC, Critical
  <1>3. SizeCounted'
     BY DEF IInv, TypeOK, SizeCounted, Bookkeeping
  <1>4. Bookkeeping'
     BY ThreadsAssumption, SizesAssumption DEF IInv, TypeOK, Bookkeeping, Threads, MutexMatchesPC, Critical, ReaderPC, WriterPC, SizeCounted
  <1>5. ReturnsTell'
     BY ThreadsAssumption DEF IInv, TypeOK, ReturnsTell, Bookkeeping, Threads
  <1>6. MissedOnlyByShortWrite'
     BY ThreadsAssumption DEF IInv, TypeOK, MissedOnlyByShortWrite, Bookkeeping, Threads, Announcing, lifo_read_queue
  <1> QED BY <1>1, <1>2, <1>3, <1>4, <1>5, <1>6 DEF IInv

(* After the wake-up nobody sleeps. *)
LEMMA WriteWakeInv == ASSUME IInv, NEW w \in Writers, WriteWake(w) PROVE IInv'
  <1> USE DEF WriteWake, lifo_read_queue, reader, request
  <1>1. TypeOK'
    <2>1. pc' \in [Threads -> ReaderPC \cup WriterPC]
      BY DEF IInv, TypeOK, ReaderPC, WriterPC
    <2>2. (\A r \in Readers : pc'[r] \in ReaderPC) /\ (\A u \in Writers : pc'[u] \in WriterPC)
      BY ThreadsAssumption DEF IInv, TypeOK, Threads, ReaderPC, WriterPC
    <2>3. temp_buffer' \in [Threads -> Seq(Chars)] /\ ret' \in [Threads -> Int]
      BY DEF IInv, TypeOK, Threads
    <2>4. unannounced' \in BOOLEAN
      OBVIOUS
    <2> QED BY <2>1, <2>2, <2>3, <2>4 DEF IInv, TypeOK
  <1>2. MutexMatchesPC'
     BY ThreadsAssumption DEF IInv, TypeOK, Threads, MutexMatchesPC, Critical
  <1>3. SizeCounted'
     BY DEF IInv, TypeOK, SizeCounted, Bookkeeping
  <1>4. Bookkeeping'
     BY ThreadsAssumption, SizesAssumption DEF IInv, TypeOK, Bookkeeping, Threads, MutexMatchesPC, Critical, ReaderPC, WriterPC, SizeCounted
  <1>5. ReturnsTell'
     BY ThreadsAssumption DEF IInv, TypeOK, ReturnsTell, Bookkeeping, Threads
  <1>6. MissedOnlyByShortWrite'
     BY ThreadsAssumption DEF IInv, TypeOK, MissedOnlyByShortWrite, Bookkeeping, Threads, Announcing, lifo_read_queue
  <1> QED BY <1>1, <1>2, <1>3, <1>4, <1>5, <1>6 DEF IInv

-----------------------------------------------------------------------------
(* Every step of the driver keeps the invariant. *)
LEMMA NextInv == IInv /\ [Next]_vars => IInv'
  <1> SUFFICES ASSUME IInv, [Next]_vars PROVE IInv'
      OBVIOUS
  <1>1. ASSUME NEW r \in Readers, ReadCall(r) \/ ReadInterrupted(r) \/ ReadSignalled(r) \/ ReaderStep(r)
        PROVE  IInv'
    <2>1. CASE ReadCall(r)
      BY <2>1, ReadCallInv
    <2>2. CASE ReadCheckEmpty(r)
      BY <2>2, ReadCheckEmptyInv
    <2>3. CASE ReadCheckPassed(r)
      BY <2>3, ReadCheckPassedInv
    <2>4. CASE ReadWait(r)
      BY <2>4, ReadWaitInv
    <2>5. CASE ReadInterrupted(r)
      BY <2>5, ReadInterruptedInv
    <2>13. CASE ReadSignalled(r)
      BY <2>13, ReadSignalledInv
    <2>6. CASE ReadLock(r)
      BY <2>6, ReadLockInv
    <2>7. CASE ReadNothing(r)
      BY <2>7, ReadNothingInv
    <2>8. CASE ReadNoMemory(r)
      BY <2>8, ReadNoMemoryInv
    <2>9. CASE ReadAllocated(r)
      BY <2>9, ReadAllocatedInv
    <2>10. CASE ReadPop(r)
      BY <2>10, ReadPopInv
    <2>11. CASE ReadCopied(r)
      BY <2>11, ReadCopiedInv
    <2>12. CASE ReadFault(r)
      BY <2>12, ReadFaultInv
    <2> QED BY <1>1, <2>1, <2>2, <2>3, <2>4, <2>5, <2>6, <2>7, <2>8, <2>9, <2>10, <2>11, <2>12, <2>13 DEF ReaderStep
  <1>2. ASSUME NEW w \in Writers, WriteRefused(w) \/ WriteCall(w) \/ WriterStep(w)
        PROVE  IInv'
    <2>1. CASE WriteRefused(w)
      BY <2>1, WriteRefusedInv
    <2>2. CASE WriteCall(w)
      BY <2>2, WriteCallInv
    <2>3. CASE WriteLock(w)
      BY <2>3, WriteLockInv
    <2>4. CASE WriteNoSpace(w)
      BY <2>4, WriteNoSpaceInv
    <2>5. CASE WriteHasSpace(w)
      BY <2>5, WriteHasSpaceInv
    <2>6. CASE WritePush(w)
      BY <2>6, WritePushInv
    <2>7. CASE WriteCutShort(w)
      BY <2>7, WriteCutShortInv
    <2>8. CASE WriteUnlock(w)
      BY <2>8, WriteUnlockInv
    <2>9. CASE WriteWake(w)
      BY <2>9, WriteWakeInv
    <2> QED BY <1>2, <2>1, <2>2, <2>3, <2>4, <2>5, <2>6, <2>7, <2>8, <2>9 DEF WriterStep
  <1>3. CASE UNCHANGED vars
    BY <1>3 DEF vars, IInv, TypeOK, MutexMatchesPC, SizeCounted, Bookkeeping, ReturnsTell,
                MissedOnlyByShortWrite, Announcing, lifo_read_queue
  <1> QED BY <1>1, <1>2, <1>3 DEF Next

(* Every reachable state satisfies the whole invariant. *)
THEOREM Invariant == Spec => []IInv
  <1> QED BY InitInv, NextInv, PTL DEF Spec

(* Type correctness. *)
THEOREM TypeCorrect == Spec => []TypeOK
  <1>1. IInv => TypeOK
    BY DEF IInv
  <1> QED BY <1>1, Invariant, PTL

(* The mutex is held by exactly the process between lock and unlock. *)
THEOREM MutualExclusion == Spec => []MutexMatchesPC
  <1>1. IInv => MutexMatchesPC
    BY DEF IInv
  <1> QED BY <1>1, Invariant, PTL

(* total_size counts the list and stays within the capacity. *)
THEOREM SizeNeverLies == Spec => []SizeCounted
  <1>1. IInv => SizeCounted
    BY DEF IInv
  <1> QED BY <1>1, Invariant, PTL

(* copy_to_user is given as many characters as it copies. *)
THEOREM NoUninitialisedCopy == Spec => []CopiesOnlyPopped
  <1>1. IInv => CopiesOnlyPopped
    BY LenProperties, EmptySeq DEF IInv, TypeOK, Bookkeeping, CopiesOnlyPopped, Popping, Threads
  <1> QED BY <1>1, Invariant, PTL

(* What a finished call returns is what it stored or copied out; a read that
   faulted left fewer characters than were asked for. *)
THEOREM ReturnValues == Spec => []ReturnsTell
  <1>1. IInv => ReturnsTell
    BY DEF IInv
  <1> QED BY <1>1, Invariant, PTL

(* A wake-up is missed only after a write that a failed allocation cut short. *)
THEOREM WakeUps == Spec => []MissedOnlyByShortWrite
  <1>1. IInv => MissedOnlyByShortWrite
    BY DEF IInv
  <1> QED BY <1>1, Invariant, PTL

(* A reader at its pops finds what it has yet to pop, a writer at its pushes
   the room it has yet to use, although both were measured before. *)
THEOREM Accounts == Spec => []Bookkeeping
  <1>1. IInv => Bookkeeping
    BY DEF IInv
  <1> QED BY <1>1, Invariant, PTL
-----------------------------------------------------------------------------
(* The mutex is given back *)

(* A write keeps no more than fits into an empty list. *)
Short == \A w \in Writers : Len(temp_buffer[w]) <= LIFO_MAX_SIZE

LEMMA ClampedShort ==
  ASSUME NEW n \in Nat, NEW text \in [1 .. n -> Chars]
  PROVE  Len(Clamped(text)) <= LIFO_MAX_SIZE
  <1>1. text \in Seq(Chars) /\ Len(text) = n
    OBVIOUS
  <1>2. Smaller(Len(text), LIFO_MAX_SIZE) \in Nat /\ Smaller(Len(text), LIFO_MAX_SIZE) <= LIFO_MAX_SIZE
        /\ Smaller(Len(text), LIFO_MAX_SIZE) <= Len(text)
    BY <1>1, SizesAssumption DEF Smaller
  <1> QED BY <1>1, <1>2, SubSeqProperties DEF Clamped

LEMMA NextShort ==
  ASSUME IInv, Short, [Next]_vars
  PROVE  Short'
  <1> SUFFICES ASSUME NEW w \in Writers PROVE Len(temp_buffer'[w]) <= LIFO_MAX_SIZE
    BY DEF Short
  <1>1. /\ temp_buffer \in [Threads -> Seq(Chars)]
        /\ w \in Threads /\ w \notin Readers
        /\ Len(temp_buffer[w]) <= LIFO_MAX_SIZE /\ Len(<<>>) <= LIFO_MAX_SIZE
    BY ThreadsAssumption, SizesAssumption, EmptySeq DEF IInv, TypeOK, Threads, Short
  <1>2. ASSUME NEW r \in Readers, ReadCall(r) \/ ReadInterrupted(r) \/ ReadSignalled(r) \/ ReaderStep(r)
        PROVE  temp_buffer'[w] = temp_buffer[w]
    BY <1>1, <1>2 DEF ReadCall, ReadInterrupted, ReadSignalled, ReaderStep, ReadCheckEmpty, ReadCheckPassed, ReadWait, ReadLock,
                      ReadNothing, ReadNoMemory, ReadAllocated, ReadPop, ReadCopied, ReadFault, Return
  <1>3. ASSUME NEW u \in Writers, WriteRefused(u) \/ WriterStep(u)
        PROVE  temp_buffer'[w] \in {temp_buffer[w], <<>>}
    BY <1>1, <1>3 DEF WriteRefused, WriterStep, WriteLock, WriteNoSpace, WriteHasSpace, WritePush,
                      WriteCutShort, WriteUnlock, WriteWake, Return
  <1>4. ASSUME NEW u \in Writers, WriteCall(u)
        PROVE  Len(temp_buffer'[w]) <= LIFO_MAX_SIZE
    <2>1. PICK n \in 1 .. MaxWrite : \E text \in [1 .. n -> Chars] :
                  temp_buffer' = [temp_buffer EXCEPT ![u] = Clamped(text)]
      BY <1>4 DEF WriteCall
    <2>2. PICK text \in [1 .. n -> Chars] : temp_buffer' = [temp_buffer EXCEPT ![u] = Clamped(text)]
      BY <2>1
    <2>3. Len(Clamped(text)) <= LIFO_MAX_SIZE
      BY SizesAssumption, ClampedShort
    <2> QED BY <1>1, <2>2, <2>3
  <1>5. CASE UNCHANGED vars
    BY <1>1, <1>5 DEF vars
  <1> QED BY <1>1, <1>2, <1>3, <1>4, <1>5 DEF Next

(* What is left to do is at least the giving back, and bounded by the capacity. *)
LEMMA StepsBounded ==
  ASSUME IInv, Short, NEW t \in Threads, lifo_mutex = t
  PROVE  StepsLeft(t) \in 1 .. LIFO_MAX_SIZE + 2
  <1>1. pc[t] \in Critical
    BY DEF IInv, MutexMatchesPC
  <1>2. CASE t \in Readers
    <2>1. pc[t] \in {"r_locked", "r_pop"}
      BY <1>1, <1>2 DEF IInv, TypeOK, ReaderPC, Critical
    <2>2. /\ count[t] \in Nat /\ bytes_read[t] \in Nat /\ total_size \in Nat
          /\ total_size = Len(lifo_stack) /\ total_size <= LIFO_MAX_SIZE
          /\ Len(temp_buffer[t]) \in Nat /\ Len(temp_buffer[t]) <= bytes_read[t]
          /\ bytes_read[t] - Len(temp_buffer[t]) <= Len(lifo_stack)
      BY <1>2, LenProperties DEF IInv, TypeOK, SizeCounted, Bookkeeping
    <2> QED BY <2>1, <2>2, SizesAssumption DEF StepsLeft, ReadSize, Smaller
  <1>3. CASE t \in Writers
    <2>1. pc[t] \in {"w_space", "w_push"}
      BY <1>1, <1>3 DEF IInv, TypeOK, WriterPC, Critical
    <2>2. /\ pushed[t] \in Nat /\ pushed[t] <= Len(temp_buffer[t])
          /\ Len(temp_buffer[t]) \in Nat /\ Len(temp_buffer[t]) <= LIFO_MAX_SIZE
      BY <1>3, <2>1, LenProperties DEF IInv, TypeOK, Bookkeeping, Short
    <2> QED BY <2>1, <2>2, SizesAssumption DEF StepsLeft
  <1> QED BY <1>2, <1>3 DEF Threads

(* The holder gets on with its work or is left alone. *)
Advances(t) == \/ /\ StepsLeft(t)' < StepsLeft(t)
                  /\ lifo_mutex' = IF StepsLeft(t)' = 0 THEN NoThread ELSE t
               \/ Untouched(t)

(* A read that holds the mutex. *)
LEMMA ReaderAdvances ==
  ASSUME IInv, IInv', Short, Short', NEW r \in Readers, lifo_mutex = r, ReaderStep(r)
  PROVE  Advances(r)
  <1>1. r \in Threads /\ r # NoThread /\ pc[r] \in {"r_locked", "r_pop"}
    BY ThreadsAssumption DEF IInv, MutexMatchesPC, TypeOK, ReaderPC, Critical, Threads
  <1>2. /\ pc \in [Threads -> ReaderPC \cup WriterPC]
        /\ temp_buffer \in [Threads -> Seq(Chars)] /\ lifo_stack \in Seq(Chars)
        /\ count[r] \in Nat /\ bytes_read \in [Readers -> Nat] /\ total_size \in Nat
        /\ Len(temp_buffer[r]) \in Nat
    BY <1>1, LenProperties DEF IInv, TypeOK
  <1>3. StepsLeft(r) \in 1 .. LIFO_MAX_SIZE + 2
    BY <1>1, StepsBounded
  <1>4. ASSUME lifo_mutex' = NoThread, pc'[r] = "idle" PROVE Advances(r)
    <2>1. StepsLeft(r)' = 0
      BY <1>4 DEF StepsLeft
    <2> QED BY <1>3, <1>4, <2>1, SizesAssumption DEF Advances
  <1>5. CASE ReadNothing(r) \/ ReadNoMemory(r) \/ ReadCopied(r) \/ ReadFault(r)
    BY <1>1, <1>2, <1>4, <1>5 DEF ReadNothing, ReadNoMemory, ReadCopied, ReadFault, Return, Transition, mutex_unlock
  <1>6. CASE ReadAllocated(r)
    <2>1. /\ pc[r] = "r_locked" /\ pc'[r] = "r_pop" /\ lifo_mutex' = r
          /\ bytes_read'[r] = ReadSize(r) /\ temp_buffer' = temp_buffer
      BY <1>1, <1>2, <1>6 DEF ReadAllocated, Transition
    <2>2. Len(temp_buffer[r]) = 0
      <3>1. bytes_read[r] = 0 /\ Len(temp_buffer[r]) <= bytes_read[r]
        BY <2>1 DEF IInv, Bookkeeping
      <3> QED BY <1>2, <3>1
    <2>3. StepsLeft(r) = ReadSize(r) + 2 /\ StepsLeft(r)' = ReadSize(r) + 1 /\ ReadSize(r) \in Nat
      BY <1>2, <2>1, <2>2 DEF StepsLeft, ReadSize, Smaller
    <2> QED BY <2>1, <2>3 DEF Advances
  <1>7. CASE ReadPop(r)
    <2>1. /\ pc[r] = "r_pop" /\ pc'[r] = "r_pop" /\ lifo_mutex' = r
          /\ bytes_read'[r] = bytes_read[r] /\ Len(temp_buffer[r]) < bytes_read[r]
          /\ lifo_stack # <<>>
          /\ temp_buffer'[r] = Append(temp_buffer[r], Head(lifo_stack))
      BY <1>1, <1>2, <1>7 DEF ReadPop, Popping, Transition
    <2>2. Len(temp_buffer'[r]) = Len(temp_buffer[r]) + 1
      BY <1>1, <1>2, <2>1, AppendProperties, HeadTailProperties
    <2>3. /\ StepsLeft(r) = bytes_read[r] - Len(temp_buffer[r]) + 1
          /\ StepsLeft(r)' = bytes_read[r] - Len(temp_buffer[r])
      BY <1>2, <2>1, <2>2 DEF StepsLeft
    <2> QED BY <1>2, <2>1, <2>3 DEF Advances
  <1> QED BY <1>1, <1>5, <1>6, <1>7 DEF ReaderStep, ReadCheckEmpty, ReadCheckPassed, ReadWait, ReadLock, Return, Transition

(* A write that holds the mutex. *)
LEMMA WriterAdvances ==
  ASSUME IInv, IInv', Short, Short', NEW w \in Writers, lifo_mutex = w, WriterStep(w)
  PROVE  Advances(w)
  <1>1. w \in Threads /\ w # NoThread /\ pc[w] \in {"w_space", "w_push"}
    BY ThreadsAssumption DEF IInv, MutexMatchesPC, TypeOK, WriterPC, Critical, Threads
  <1>2. /\ pc \in [Threads -> ReaderPC \cup WriterPC]
        /\ temp_buffer \in [Threads -> Seq(Chars)] /\ pushed \in [Writers -> Nat]
        /\ Len(temp_buffer[w]) \in Nat
    BY <1>1, LenProperties DEF IInv, TypeOK
  <1>3. StepsLeft(w) \in 1 .. LIFO_MAX_SIZE + 2
    BY <1>1, StepsBounded
  <1>4. ASSUME lifo_mutex' = NoThread, pc'[w] \in {"idle", "w_wake"} PROVE Advances(w)
    <2>1. StepsLeft(w)' = 0
      BY <1>4 DEF StepsLeft
    <2> QED BY <1>3, <1>4, <2>1, SizesAssumption DEF Advances
  <1>5. CASE WriteNoSpace(w) \/ WriteCutShort(w) \/ WriteUnlock(w)
    BY <1>1, <1>2, <1>4, <1>5 DEF WriteNoSpace, WriteCutShort, WriteUnlock, Return, Transition, mutex_unlock
  <1>6. CASE WriteHasSpace(w)
    <2>1. /\ pc[w] = "w_space" /\ pc'[w] = "w_push" /\ lifo_mutex' = w
          /\ pushed' = pushed /\ temp_buffer' = temp_buffer
      BY <1>1, <1>2, <1>6 DEF WriteHasSpace, Transition
    <2>2. pushed[w] = 0
      BY <2>1 DEF IInv, Bookkeeping
    <2>3. StepsLeft(w) = Len(temp_buffer[w]) + 2 /\ StepsLeft(w)' = Len(temp_buffer[w]) + 1
      BY <1>2, <2>1, <2>2 DEF StepsLeft
    <2> QED BY <1>2, <2>1, <2>3 DEF Advances
  <1>7. CASE WritePush(w)
    <2>1. /\ pc[w] = "w_push" /\ pc'[w] = "w_push" /\ lifo_mutex' = w
          /\ pushed'[w] = pushed[w] + 1 /\ temp_buffer' = temp_buffer
          /\ pushed[w] < Len(temp_buffer[w])
      BY <1>1, <1>2, <1>7 DEF WritePush, Transition
    <2>2. /\ StepsLeft(w) = Len(temp_buffer[w]) - pushed[w] + 1
          /\ StepsLeft(w)' = Len(temp_buffer[w]) - pushed[w]
      BY <1>2, <2>1 DEF StepsLeft
    <2> QED BY <1>2, <2>1, <2>2 DEF Advances
  <1> QED BY <1>1, <1>5, <1>6, <1>7 DEF WriterStep, WriteLock, WriteWake, Transition

(* Nobody else's step can touch what the holder works on. *)
LEMMA OthersWait ==
  ASSUME IInv, NEW t \in Threads, lifo_mutex = t,
         \/ \E r \in Readers \ {t} : ReadCall(r) \/ ReadInterrupted(r) \/ ReadSignalled(r) \/ ReaderStep(r)
         \/ \E w \in Writers \ {t} : WriteRefused(w) \/ WriteCall(w) \/ WriterStep(w)
  PROVE  Untouched(t)
  <1>1. /\ t # NoThread /\ pc[t] \in Critical
        /\ pc \in [Threads -> ReaderPC \cup WriterPC] /\ temp_buffer \in [Threads -> Seq(Chars)]
        /\ count \in [Readers -> Nat] /\ bytes_read \in [Readers -> Nat] /\ pushed \in [Writers -> Nat]
        /\ \A u \in Threads \ {t} : pc[u] \notin Critical
        /\ t \notin lifo_read_queue
        /\ t \in Readers => pc[t] \in {"r_locked", "r_pop"}
        /\ t \in Writers => pc[t] \in {"w_space", "w_push"}
    BY ThreadsAssumption, HolderAlone
    DEF IInv, TypeOK, MutexMatchesPC, Threads, Critical, lifo_read_queue, ReaderPC, WriterPC
  <1> DEFINE Left == /\ UNCHANGED <<lifo_mutex, lifo_stack, total_size, pc[t], temp_buffer[t]>>
                     /\ t \in Readers => UNCHANGED <<count[t], bytes_read[t]>>
                     /\ t \in Writers => UNCHANGED pushed[t]
  <1>2. ASSUME NEW r \in Readers \ {t}, ReadCall(r) \/ ReadInterrupted(r) \/ ReadSignalled(r) \/ ReaderStep(r)
        PROVE  Left
    <2> USE <1>1 DEF Transition, Return, request, shared
    <2>1. r \in Threads /\ pc[r] \notin Critical
      BY DEF Threads
    <2>2. CASE ReadCall(r)
      BY <2>1, <2>2 DEF ReadCall
    <2>3. CASE ReadInterrupted(r)
      BY <2>1, <2>3 DEF ReadInterrupted
    <2>4. CASE ReadSignalled(r) \/ ReadCheckEmpty(r) \/ ReadCheckPassed(r) \/ ReadWait(r)
      BY <2>1, <2>4 DEF ReadSignalled, ReadCheckEmpty, ReadCheckPassed, ReadWait
    <2> QED BY <1>2, <2>1, <2>2, <2>3, <2>4
            DEF ReaderStep, ReadLock, mutex_lock, ReadNothing, ReadNoMemory, ReadAllocated,
                ReadPop, ReadCopied, ReadFault, Critical
  <1>3. ASSUME NEW w \in Writers \ {t}, WriteRefused(w) \/ WriteCall(w) \/ WriterStep(w)
        PROVE  Left
    <2> USE <1>1 DEF Transition, Return, request, shared, reader
    <2>1. w \in Threads /\ pc[w] \notin Critical
      BY DEF Threads
    <2>2. CASE WriteRefused(w)
      BY <2>1, <2>2 DEF WriteRefused
    <2>3. CASE WriteCall(w)
      BY <2>1, <2>3 DEF WriteCall
    <2>4. CASE WriteWake(w)
      BY <2>1, <2>4 DEF WriteWake
    <2> QED BY <1>3, <2>1, <2>2, <2>3, <2>4
            DEF WriterStep, WriteLock, mutex_lock, WriteNoSpace, WriteHasSpace, WritePush,
                WriteCutShort, WriteUnlock, Critical
  <1>4. Left
    BY <1>2, <1>3
  <1>5. StepsLeft(t)' = StepsLeft(t)
    <2>1. CASE t \in Readers
      BY <1>1, <1>4, <2>1 DEF StepsLeft, ReadSize
    <2>2. CASE t \in Writers
      BY <1>1, <1>4, <2>2 DEF StepsLeft
    <2> QED BY <2>1, <2>2 DEF Threads
  <1> QED BY <1>4, <1>5 DEF Untouched

(* The holder of the mutex gives it back after at most LIFO_MAX_SIZE + 2 steps of
   its own, and nobody else can make it take longer. *)
THEOREM MutexGivenBack == Spec => HolderAdvances
  <1> DEFINE Inv == IInv /\ Short
             A == \A t \in Threads : lifo_mutex = t => StepsLeft(t) \in 1 .. LIFO_MAX_SIZE + 2 /\ Advances(t)
  <1>1. Init => Inv
    <2>1. Init => Short
      BY SizesAssumption, EmptySeq DEF Init, Short, Threads
    <2> QED BY <2>1, InitInv
  <1>2. Inv /\ [Next]_vars => Inv'
    BY NextInv, NextShort
  <1>3. Inv /\ Inv' /\ [Next]_vars => [A]_vars
    <2> SUFFICES ASSUME Inv, Inv', Next, NEW t \in Threads, lifo_mutex = t
                 PROVE  StepsLeft(t) \in 1 .. LIFO_MAX_SIZE + 2 /\ Advances(t)
      OBVIOUS
    <2>1. StepsLeft(t) \in 1 .. LIFO_MAX_SIZE + 2
      BY StepsBounded
    <2>2. pc[t] \in Critical
      BY DEF IInv, MutexMatchesPC
    <2>3. CASE \/ \E r \in Readers \ {t} : ReadCall(r) \/ ReadInterrupted(r) \/ ReadSignalled(r) \/ ReaderStep(r)
               \/ \E w \in Writers \ {t} : WriteRefused(w) \/ WriteCall(w) \/ WriterStep(w)
      BY <2>1, <2>3, OthersWait DEF Advances
    <2>4. CASE t \in Readers /\ (ReadCall(t) \/ ReadInterrupted(t) \/ ReadSignalled(t) \/ ReaderStep(t))
      <3>1. ~ReadCall(t) /\ ~ReadInterrupted(t) /\ ~ReadSignalled(t)
        BY <2>2 DEF ReadCall, ReadInterrupted, ReadSignalled, Return, Transition, Critical
      <3> QED BY <2>1, <2>4, <3>1, ReaderAdvances
    <2>5. CASE t \in Writers /\ (WriteRefused(t) \/ WriteCall(t) \/ WriterStep(t))
      <3>1. ~WriteRefused(t) /\ ~WriteCall(t)
        BY <2>2 DEF WriteRefused, WriteCall, Return, Transition, Critical
      <3> QED BY <2>1, <2>5, <3>1, WriterAdvances
    <2> QED BY <2>1, <2>3, <2>4, <2>5 DEF Next
  <1>4. [A]_vars <=> [\A t \in Threads : lifo_mutex = t =>
          /\ StepsLeft(t) \in 1 .. LIFO_MAX_SIZE + 2
          /\ \/ /\ StepsLeft(t)' < StepsLeft(t)
                /\ lifo_mutex' = IF StepsLeft(t)' = 0 THEN NoThread ELSE t
             \/ Untouched(t)]_vars
    BY DEF Advances
  <1> HIDE DEF Inv, A
  <1> QED BY <1>1, <1>2, <1>3, <1>4, PTL DEF Spec, HolderAdvances
=============================================================================
