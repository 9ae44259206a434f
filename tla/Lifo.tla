-------------------------------- MODULE Lifo --------------------------------
(***************************************************************************)
(* The read and write paths of the character driver CA2/P5/lifo_driver.c:  *)
(* processes that read /dev/lifo_read and processes that write             *)
(* /dev/lifo_write share a list of characters, its size, one mutex and one *)
(* wait queue.  One action per step between two points at which another    *)
(* process can look at the shared state: the list is tested without the    *)
(* mutex (lines 85 and 89), so pushes and pops are separate steps, one     *)
(* character each.  Memory allocation, copies from and to user space and   *)
(* signals fail or arrive whenever they like.                              *)
(***************************************************************************)
EXTENDS Integers, Sequences

CONSTANTS Readers,        \* processes that call read()
          Writers,        \* processes that call write()
          Chars,          \* characters written
          LIFO_MAX_SIZE,  \* capacity, 1 MB in the driver
          Counts,         \* byte counts passed to read()
          MaxWrite,       \* longest user buffer passed to write()
          NoThread        \* the mutex is free

ASSUME ThreadsAssumption == /\ Readers \cap Writers = {}
                            /\ NoThread \notin Readers \cup Writers

ASSUME SizesAssumption == /\ LIFO_MAX_SIZE \in Nat \ {0}
                          /\ MaxWrite \in Nat
                          /\ Counts \subseteq Nat

VARIABLES lifo_stack,   \* the list, first entry (newest character) first
          total_size,   \* its size as the driver counts it
          lifo_mutex,   \* the holder of the mutex
          pc,           \* where each process is in its call
          ret,          \* what its last call returned
          temp_buffer,  \* the kernel buffer of its call
          count,        \* count[r]: bytes asked for by r's call
          nonblock,     \* nonblock[r]: the file was opened with O_NONBLOCK
          bytes_read,   \* bytes_read[r]: the loop bound of r's call
          user_buffer,  \* user_buffer[r]: what r's call copied out
          pushed,       \* pushed[w]: loop counter i of w's call
          unannounced   \* a short write has stored characters since the last wake_up

vars == <<lifo_stack, total_size, lifo_mutex, pc, ret, temp_buffer, count,
          nonblock, bytes_read, user_buffer, pushed, unannounced>>

Threads == Readers \cup Writers

(* Return values below zero. *)
ENOMEM      == -12
EFAULT      == -14
ENOSPC      == -28
ERESTARTSYS == -512

ReaderPC == {"idle", "r_check", "r_wait", "r_asleep", "r_lock", "r_locked", "r_pop"}
WriterPC == {"idle", "w_lock", "w_space", "w_push", "w_wake"}

(* The processes on lifo_read_queue. *)
lifo_read_queue == {r \in Readers : pc[r] = "r_asleep"}

Smaller(a, b) == IF a <= b THEN a ELSE b

Init == /\ lifo_stack  = <<>>
        /\ total_size  = 0
        /\ lifo_mutex  = NoThread
        /\ pc          = [t \in Threads |-> "idle"]
        /\ ret         = [t \in Threads |-> 0]
        /\ temp_buffer = [t \in Threads |-> <<>>]
        /\ count       = [r \in Readers |-> 0]
        /\ nonblock    = [r \in Readers |-> FALSE]
        /\ bytes_read  = [r \in Readers |-> 0]
        /\ user_buffer = [r \in Readers |-> <<>>]
        /\ pushed      = [w \in Writers |-> 0]
        /\ unannounced = FALSE

Transition(t, from, to) == /\ pc[t] = from
                           /\ pc' = [pc EXCEPT ![t] = to]

(* The call of t ends with v, its kernel buffer is freed. *)
Return(t, from, v) == /\ Transition(t, from, "idle")
                      /\ ret' = [ret EXCEPT ![t] = v]
                      /\ temp_buffer' = [temp_buffer EXCEPT ![t] = <<>>]

mutex_lock(t) == /\ lifo_mutex = NoThread
                 /\ lifo_mutex' = t

mutex_unlock(t) == lifo_mutex' = NoThread

request == <<count, nonblock>>
shared  == <<lifo_stack, total_size, unannounced>>

-----------------------------------------------------------------------------
(* lifo_read *)

(* read(fd, buf, n) on a file opened with or without O_NONBLOCK. *)
ReadCall(r) == /\ Transition(r, "idle", "r_check")
               /\ \E n \in Counts, nb \in BOOLEAN :
                    /\ count' = [count EXCEPT ![r] = n]
                    /\ nonblock' = [nonblock EXCEPT ![r] = nb]
               /\ user_buffer' = [user_buffer EXCEPT ![r] = <<>>]
               /\ ret' = [ret EXCEPT ![r] = 0]
               /\ UNCHANGED <<shared, lifo_mutex, temp_buffer, bytes_read, pushed>>

(* The test of O_NONBLOCK, made without the mutex. *)
ReadCheckEmpty(r) == /\ nonblock[r]
                     /\ lifo_stack = <<>>
                     /\ Return(r, "r_check", 0)
                     /\ UNCHANGED <<shared, lifo_mutex, request, bytes_read, user_buffer, pushed>>

ReadCheckPassed(r) == /\ ~nonblock[r] \/ lifo_stack # <<>>
                      /\ Transition(r, "r_check", "r_wait")
                      /\ UNCHANGED <<shared, lifo_mutex, request, ret, temp_buffer,
                                     bytes_read, user_buffer, pushed>>

(* wait_event_interruptible: the condition is tested after the process has
   put itself on the queue, so testing it and going to sleep is one step. *)
ReadWait(r) == /\ Transition(r, "r_wait", IF lifo_stack = <<>> THEN "r_asleep" ELSE "r_lock")
               /\ UNCHANGED <<shared, lifo_mutex, request, ret, temp_buffer,
                              bytes_read, user_buffer, pushed>>

(* A signal ends the sleep, beside an empty list. *)
ReadInterrupted(r) == /\ lifo_stack = <<>>
                      /\ Return(r, "r_asleep", ERESTARTSYS)
                      /\ UNCHANGED <<shared, lifo_mutex, request, bytes_read, user_buffer, pushed>>

(* A signal beside data: the condition is tested before the signal counts,
   and the read goes on. *)
ReadSignalled(r) == /\ lifo_stack # <<>>
                    /\ Transition(r, "r_asleep", "r_lock")
                    /\ UNCHANGED <<shared, lifo_mutex, request, ret, temp_buffer,
                                   bytes_read, user_buffer, pushed>>

ReadLock(r) == /\ mutex_lock(r)
               /\ Transition(r, "r_lock", "r_locked")
               /\ UNCHANGED <<shared, request, ret, temp_buffer, bytes_read, user_buffer, pushed>>

(* Altered: the read is not limited to what the list holds. *)
ReadSizeUnbounded(r) == count[r]

ReadSize(r) == Smaller(count[r], total_size)

(* Nothing left once the mutex is held, or nothing asked for. *)
ReadNothing(r) == /\ lifo_stack = <<>> \/ ReadSize(r) = 0
                  /\ mutex_unlock(r)
                  /\ Return(r, "r_locked", 0)
                  /\ UNCHANGED <<shared, request, bytes_read, user_buffer, pushed>>

ReadNoMemory(r) == /\ lifo_stack # <<>>
                   /\ ReadSize(r) > 0
                   /\ mutex_unlock(r)
                   /\ Return(r, "r_locked", ENOMEM)
                   /\ UNCHANGED <<shared, request, bytes_read, user_buffer, pushed>>

ReadAllocated(r) == /\ lifo_stack # <<>>
                    /\ ReadSize(r) > 0
                    /\ bytes_read' = [bytes_read EXCEPT ![r] = ReadSize(r)]
                    /\ Transition(r, "r_locked", "r_pop")
                    /\ UNCHANGED <<shared, lifo_mutex, request, ret, temp_buffer,
                                   user_buffer, pushed>>

Popping(r) == Len(temp_buffer[r]) < bytes_read[r] /\ lifo_stack # <<>>

(* Altered: the size is lowered by the whole read at every character. *)
ReadPopAllAtOnce(r) == /\ Popping(r)
                       /\ Transition(r, "r_pop", "r_pop")
                       /\ temp_buffer' = [temp_buffer EXCEPT ![r] = Append(@, Head(lifo_stack))]
                       /\ lifo_stack' = Tail(lifo_stack)
                       /\ total_size' = total_size - bytes_read[r]
                       /\ UNCHANGED <<lifo_mutex, request, ret, bytes_read, user_buffer,
                                      pushed, unannounced>>

ReadPop(r) == /\ Popping(r)
              /\ Transition(r, "r_pop", "r_pop")
              /\ temp_buffer' = [temp_buffer EXCEPT ![r] = Append(@, Head(lifo_stack))]
              /\ lifo_stack' = Tail(lifo_stack)
              /\ total_size' = total_size - 1
              /\ UNCHANGED <<lifo_mutex, request, ret, bytes_read, user_buffer,
                             pushed, unannounced>>

ReadCopied(r) == /\ ~Popping(r)
                 /\ user_buffer' = [user_buffer EXCEPT ![r] = temp_buffer[r]]
                 /\ mutex_unlock(r)
                 /\ Return(r, "r_pop", bytes_read[r])
                 /\ bytes_read' = [bytes_read EXCEPT ![r] = 0]
                 /\ UNCHANGED <<shared, request, pushed>>

(* copy_to_user stops short: the user's buffer holds a part of the read, or
   nothing of it. *)
CopiedInPart(r) == \E k \in 0 .. bytes_read[r] - 1 :
                     user_buffer' = [user_buffer EXCEPT ![r] = SubSeq(temp_buffer[r], 1, k)]

(* Altered: the error path forgets the mutex. *)
ReadFaultKeepsLock(r) == /\ ~Popping(r)
                         /\ CopiedInPart(r)
                         /\ Return(r, "r_pop", EFAULT)
                         /\ bytes_read' = [bytes_read EXCEPT ![r] = 0]
                         /\ UNCHANGED <<shared, lifo_mutex, request, pushed>>

(* copy_to_user faults: the characters are off the list already, and those
   it did not copy are lost. *)
ReadFault(r) == /\ ~Popping(r)
                /\ CopiedInPart(r)
                /\ mutex_unlock(r)
                /\ Return(r, "r_pop", EFAULT)
                /\ bytes_read' = [bytes_read EXCEPT ![r] = 0]
                /\ UNCHANGED <<shared, request, pushed>>

-----------------------------------------------------------------------------
(* lifo_write *)

reader == <<request, bytes_read, user_buffer>>

(* Ends before the mutex: an empty write, no memory for the buffer, or a fault. *)
WriteRefused(w) == /\ \E v \in {0, ENOMEM, EFAULT} : Return(w, "idle", v)
                   /\ pushed' = [pushed EXCEPT ![w] = 0]
                   /\ UNCHANGED <<shared, lifo_mutex, reader>>

Clamped(text) == SubSeq(text, 1, Smaller(Len(text), LIFO_MAX_SIZE))

(* The first LIFO_MAX_SIZE characters of the user's buffer are copied in. *)
WriteCall(w) == /\ Transition(w, "idle", "w_lock")
                /\ \E n \in 1 .. MaxWrite : \E text \in [1 .. n -> Chars] :
                     temp_buffer' = [temp_buffer EXCEPT ![w] = Clamped(text)]
                /\ ret' = [ret EXCEPT ![w] = 0]
                /\ pushed' = [pushed EXCEPT ![w] = 0]
                /\ UNCHANGED <<shared, lifo_mutex, reader>>

WriteLock(w) == /\ mutex_lock(w)
                /\ Transition(w, "w_lock", "w_space")
                /\ UNCHANGED <<shared, ret, temp_buffer, reader, pushed>>

(* Altered: room for one character is taken for room for all. *)
FitsOne(w) == total_size < LIFO_MAX_SIZE

Fits(w) == total_size + Len(temp_buffer[w]) <= LIFO_MAX_SIZE

(* Altered: the error path forgets the mutex. *)
WriteNoSpaceKeepsLock(w) == /\ ~Fits(w)
                            /\ Return(w, "w_space", ENOSPC)
                            /\ UNCHANGED <<shared, lifo_mutex, reader, pushed>>

WriteNoSpace(w) == /\ ~Fits(w)
                   /\ mutex_unlock(w)
                   /\ Return(w, "w_space", ENOSPC)
                   /\ UNCHANGED <<shared, reader, pushed>>

WriteHasSpace(w) == /\ Fits(w)
                    /\ Transition(w, "w_space", "w_push")
                    /\ UNCHANGED <<shared, lifo_mutex, ret, temp_buffer, reader, pushed>>

(* Altered: list_add_tail. *)
WritePushTail(w) == /\ pushed[w] < Len(temp_buffer[w])
                    /\ Transition(w, "w_push", "w_push")
                    /\ lifo_stack' = Append(lifo_stack, temp_buffer[w][pushed[w] + 1])
                    /\ total_size' = total_size + 1
                    /\ pushed' = [pushed EXCEPT ![w] = @ + 1]
                    /\ UNCHANGED <<lifo_mutex, ret, temp_buffer, reader, unannounced>>

WritePush(w) == /\ pushed[w] < Len(temp_buffer[w])
                /\ Transition(w, "w_push", "w_push")
                /\ lifo_stack' = <<temp_buffer[w][pushed[w] + 1]>> \o lifo_stack
                /\ total_size' = total_size + 1
                /\ pushed' = [pushed EXCEPT ![w] = @ + 1]
                /\ UNCHANGED <<lifo_mutex, ret, temp_buffer, reader, unannounced>>

(* Altered: a write cut short always reports an error. *)
WriteCutShortAsError(w) == /\ pushed[w] < Len(temp_buffer[w])
                           /\ mutex_unlock(w)
                           /\ Return(w, "w_push", ENOMEM)
                           /\ unannounced' = (unannounced \/ pushed[w] > 0)
                           /\ UNCHANGED <<lifo_stack, total_size, reader, pushed>>

(* No memory for a node: the call keeps what it stored, reports how much
   that is, and returns without waking anybody. *)
WriteCutShort(w) == /\ pushed[w] < Len(temp_buffer[w])
                    /\ mutex_unlock(w)
                    /\ Return(w, "w_push", IF pushed[w] > 0 THEN pushed[w] ELSE ENOMEM)
                    /\ unannounced' = (unannounced \/ pushed[w] > 0)
                    /\ UNCHANGED <<lifo_stack, total_size, reader, pushed>>

WriteUnlock(w) == /\ pushed[w] = Len(temp_buffer[w])
                  /\ mutex_unlock(w)
                  /\ Transition(w, "w_push", "w_wake")
                  /\ UNCHANGED <<shared, ret, temp_buffer, reader, pushed>>

(* Altered: only one of the sleepers is woken. *)
WriteWakeOne(w) == /\ pc[w] = "w_wake"
                   /\ IF lifo_read_queue = {} THEN pc' = [pc EXCEPT ![w] = "idle"]
                      ELSE \E r \in lifo_read_queue :
                             pc' = [pc EXCEPT ![w] = "idle", ![r] = "r_wait"]
                   /\ ret' = [ret EXCEPT ![w] = Len(temp_buffer[w])]
                   /\ temp_buffer' = [temp_buffer EXCEPT ![w] = <<>>]
                   /\ unannounced' = FALSE
                   /\ UNCHANGED <<lifo_stack, total_size, lifo_mutex, reader, pushed>>

(* Altered: a wake-up only when the list was empty before. *)
WriteWakeWasEmpty(w) == /\ pc[w] = "w_wake"
                        /\ pc' = [t \in Threads |->
                                     IF t = w THEN "idle"
                                     ELSE IF /\ t \in lifo_read_queue
                                             /\ Len(lifo_stack) = Len(temp_buffer[w]) THEN "r_wait"
                                     ELSE pc[t]]
                        /\ ret' = [ret EXCEPT ![w] = Len(temp_buffer[w])]
                        /\ temp_buffer' = [temp_buffer EXCEPT ![w] = <<>>]
                        /\ unannounced' = FALSE
                        /\ UNCHANGED <<lifo_stack, total_size, lifo_mutex, reader, pushed>>

(* wake_up_interruptible: every sleeper tests its condition again. *)
WriteWake(w) == /\ pc[w] = "w_wake"
                /\ pc' = [t \in Threads |-> IF t = w THEN "idle"
                                            ELSE IF t \in lifo_read_queue THEN "r_wait"
                                            ELSE pc[t]]
                /\ ret' = [ret EXCEPT ![w] = Len(temp_buffer[w])]
                /\ temp_buffer' = [temp_buffer EXCEPT ![w] = <<>>]
                /\ unannounced' = FALSE
                /\ UNCHANGED <<lifo_stack, total_size, lifo_mutex, reader, pushed>>

-----------------------------------------------------------------------------
ReaderStep(r) == \/ ReadCheckEmpty(r) \/ ReadCheckPassed(r)
                 \/ ReadWait(r)
                 \/ ReadLock(r)
                 \/ ReadNothing(r) \/ ReadNoMemory(r) \/ ReadAllocated(r)
                 \/ ReadPop(r)
                 \/ ReadCopied(r) \/ ReadFault(r)

WriterStep(w) == \/ WriteLock(w)
                 \/ WriteNoSpace(w) \/ WriteHasSpace(w)
                 \/ WritePush(w) \/ WriteCutShort(w)
                 \/ WriteUnlock(w)
                 \/ WriteWake(w)

Next == \/ \E r \in Readers : ReadCall(r) \/ ReadInterrupted(r) \/ ReadSignalled(r) \/ ReaderStep(r)
        \/ \E w \in Writers : WriteRefused(w) \/ WriteCall(w) \/ WriterStep(w)

(* A process inside the driver keeps running unless it sleeps, and the mutex
   hands itself over to its waiters.  Nobody is obliged to call, and no
   signal has to come. *)
Fairness == /\ \A r \in Readers : WF_vars(ReaderStep(r)) /\ SF_vars(ReadLock(r))
            /\ \A w \in Writers : WF_vars(WriterStep(w)) /\ SF_vars(WriteLock(w))

Spec == Init /\ [][Next]_vars
FairSpec == Spec /\ Fairness

-----------------------------------------------------------------------------
(* Properties *)

Critical == {"r_locked", "r_pop", "w_space", "w_push"}

(* Every variable has its type, and readers and writers are only at points
   of their own function. *)
TypeOK == /\ lifo_stack \in Seq(Chars)
          /\ total_size \in Nat
          /\ lifo_mutex \in Threads \cup {NoThread}
          /\ pc \in [Threads -> ReaderPC \cup WriterPC]
          /\ \A r \in Readers : pc[r] \in ReaderPC
          /\ \A w \in Writers : pc[w] \in WriterPC
          /\ ret \in [Threads -> Int]
          /\ temp_buffer \in [Threads -> Seq(Chars)]
          /\ count \in [Readers -> Nat]
          /\ nonblock \in [Readers -> BOOLEAN]
          /\ bytes_read \in [Readers -> Nat]
          /\ user_buffer \in [Readers -> Seq(Chars)]
          /\ pushed \in [Writers -> Nat]
          /\ unannounced \in BOOLEAN

(* Exactly the process between lock and unlock holds the mutex: two calls
   never work on the list at once, and every one of the eight ways out of a
   critical section gives the mutex back. *)
MutexMatchesPC == \A t \in Threads : pc[t] \in Critical <=> lifo_mutex = t

(* total_size is the length of the list and never passes the capacity, even
   between the pushes of a write admitted by the test of line 164. *)
SizeCounted == total_size = Len(lifo_stack) /\ total_size <= LIFO_MAX_SIZE

(* When the pop loop ends, the kernel buffer holds bytes_read characters:
   copy_to_user never copies uninitialised memory, though the loop could
   also end because the list ran empty. *)
CopiesOnlyPopped ==
    \A r \in Readers : pc[r] = "r_pop" /\ ~Popping(r) => Len(temp_buffer[r]) = bytes_read[r]

(* A finished write stored exactly the characters it reports, none when it
   reports an error.  A finished read copied out exactly the characters it
   reports; on -EFAULT it left fewer than were asked for, on any other
   error none. *)
ReturnsTell ==
    /\ \A w \in Writers : pc[w] = "idle" => pushed[w] = IF ret[w] > 0 THEN ret[w] ELSE 0
    /\ \A r \in Readers : pc[r] = "idle" =>
         IF ret[r] = EFAULT THEN Len(user_buffer[r]) < count[r]
         ELSE Len(user_buffer[r]) = IF ret[r] > 0 THEN ret[r] ELSE 0

(* What each call in progress still owes the list: a reader at its pops finds
   the characters it has yet to pop, a writer at its pushes finds the room
   it has yet to use, and neither keeps anything once it is outside. *)
Bookkeeping ==
    /\ \A r \in Readers :
         /\ Len(temp_buffer[r]) <= bytes_read[r]
         /\ bytes_read[r] <= count[r]
         /\ bytes_read[r] - Len(temp_buffer[r]) <= Len(lifo_stack)
         /\ pc[r] # "idle" => user_buffer[r] = <<>>
         /\ pc[r] # "r_pop" => bytes_read[r] = 0
         /\ pc[r] = "r_pop" => bytes_read[r] > 0
    /\ \A w \in Writers :
         /\ pc[w] = "idle" => temp_buffer[w] = <<>>
         /\ pc[w] # "idle" => pushed[w] <= Len(temp_buffer[w]) /\ Len(temp_buffer[w]) > 0
         /\ pc[w] \in {"w_lock", "w_space"} => pushed[w] = 0
         /\ pc[w] = "w_push" => /\ Len(lifo_stack) + Len(temp_buffer[w]) - pushed[w] <= LIFO_MAX_SIZE
                                /\ pushed[w] <= Len(lifo_stack)
         /\ pc[w] = "w_wake" => pushed[w] = Len(temp_buffer[w])

(* The characters a write has pushed so far lie on top of the list, last one
   first, and nothing of another call has come between them. *)
StoredInOrder ==
    \A w \in Writers : pc[w] = "w_push" =>
        \A k \in 1 .. pushed[w] : lifo_stack[k] = temp_buffer[w][pushed[w] + 1 - k]

Announcing(w) == pc[w] = "w_wake" \/ (pc[w] = "w_push" /\ pushed[w] > 0)

(* "Wake up any reading processes" (line 191): while readers sleep and there
   is something to read, a writer is on its way to the wake-up. *)
NoMissedWakeUp ==
    lifo_read_queue # {} /\ lifo_stack # <<>> => \E w \in Writers : Announcing(w)

(* The same, except after a write cut short by a failed allocation: that is
   the only way in which a wake-up is missed. *)
MissedOnlyByShortWrite ==
    lifo_read_queue # {} /\ lifo_stack # <<>> =>
        unannounced \/ \E w \in Writers : Announcing(w)

(* "Handle non-blocking mode" (line 84): a read on a file opened with
   O_NONBLOCK does not sleep. *)
NonblockingNeverSleeps == \A r \in lifo_read_queue : ~nonblock[r]

(* Every write comes back to its caller, and every read comes back or goes to
   sleep, whatever the others do. *)
CallsReturn == /\ \A w \in Writers : pc[w] # "idle" ~> pc[w] = "idle"
               /\ \A r \in Readers : pc[r] # "idle" ~> pc[r] \in {"idle", "r_asleep"}

(* A sleeper does not stay asleep beside data, short writes apart. *)
SleepersWoken == \A r \in Readers :
    (pc[r] = "r_asleep" /\ lifo_stack # <<>>)
        ~> (pc[r] # "r_asleep" \/ lifo_stack = <<>> \/ unannounced)

(* How many steps of its own the holder of the mutex is from giving it back,
   at most: room or size is tested, each character is one step, and one more
   gives back. *)
StepsLeft(t) == CASE pc[t] = "r_locked" -> ReadSize(t) + 2
                  [] pc[t] = "r_pop"    -> bytes_read[t] - Len(temp_buffer[t]) + 1
                  [] pc[t] = "w_space"  -> Len(temp_buffer[t]) + 2
                  [] pc[t] = "w_push"   -> Len(temp_buffer[t]) - pushed[t] + 1
                  [] OTHER -> 0

Untouched(t) == UNCHANGED <<lifo_mutex, lifo_stack, total_size, pc[t], temp_buffer[t], StepsLeft(t)>>

(* The mutex is never held for ever: each step of its holder leaves fewer to
   do, from LIFO_MAX_SIZE + 2 down, the last one gives it back, and no
   other process makes the work longer or touches the list meanwhile.
   CallsReturn rests on it, with a fair scheduler and a fair mutex. *)
HolderAdvances ==
    [][\A t \in Threads : lifo_mutex = t =>
          /\ StepsLeft(t) \in 1 .. LIFO_MAX_SIZE + 2
          /\ \/ /\ StepsLeft(t)' < StepsLeft(t)
                /\ lifo_mutex' = IF StepsLeft(t)' = 0 THEN NoThread ELSE t
             \/ Untouched(t)]_vars

-----------------------------------------------------------------------------
(* Implementation of the abstract stack.  The characters on top of the list
   that a write in progress has stored so far, or that a read in progress
   has yet to pop, are not part of the abstract content. *)
Hidden == IF lifo_mutex \in Writers THEN pushed[lifo_mutex]
          ELSE IF lifo_mutex \in Readers
               THEN bytes_read[lifo_mutex] - Len(temp_buffer[lifo_mutex])
               ELSE 0

Settled == SubSeq(lifo_stack, Hidden + 1, Len(lifo_stack))

PhaseOf(r) == CASE pc[r] = "r_pop" -> "holding"
                [] pc[r] \notin {"idle", "r_pop"} -> "asking"
                [] pc[r] = "idle" /\ ret[r] > 0 -> "data"
                [] pc[r] = "idle" /\ ret[r] = 0 /\ count[r] > 0 -> "eof"
                [] OTHER -> "none"

TakenBy(r) == IF pc[r] = "r_pop"
              THEN temp_buffer[r] \o SubSeq(lifo_stack, 1, bytes_read[r] - Len(temp_buffer[r]))
              ELSE user_buffer[r]

Abstract == INSTANCE LifoAbstract WITH content <- Settled,
                                       want    <- count,
                                       phase   <- [r \in Readers |-> PhaseOf(r)],
                                       data    <- [r \in Readers |-> TakenBy(r)]

(* Under every interleaving, the lock-free tests of the list included, the
   driver behaves as one stack on which whole reads and writes are single
   steps. *)
ImplementsStack == Abstract!ASpec
=============================================================================
