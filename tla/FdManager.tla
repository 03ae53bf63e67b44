----------------------------- MODULE FdManager -----------------------------
(***************************************************************************)
(* FdManager in src/mumu/fd_manager.cc: a vector m_datas of FdCtx::ptr     *)
(* indexed by fd, behind a read/write lock.                                *)
(*                                                                         *)
(* get(fd, auto_create) looks the fd up under the read lock.  When it must *)
(* create, it releases the read lock, takes the write lock, grows the      *)
(* vector to fd * 1.5 if fd does not fit, and stores a new FdCtx: two      *)
(* steps here.  del(fd) is one write-locked step.  Each fd is created by   *)
(* one thread, the one that obtained it from socket() or accept(); any     *)
(* thread may look it up or delete it.                                     *)
(*                                                                         *)
(* Only the fds in Fds are tracked.  data[fd] numbers the FdCtx objects    *)
(* of fd in creation order, 0 for a null pointer or a slot past the end.   *)
(* An index of m_datas at or past its size is recorded in oob.             *)
(***************************************************************************)
EXTENDS Integers, FiniteSets

CONSTANTS
    Threads,    \* threads calling get and del
    Fds,        \* fds they use
    Owner,      \* Owner[fd]: the thread that creates fd's FdCtx
    InitSize,   \* m_datas.resize(64) in the constructor
    MaxOps      \* bound on the calls made

ASSUME Fds \subseteq Nat /\ InitSize \in Nat /\ MaxOps \in Nat

VARIABLES
    size,       \* m_datas.size()
    data,       \* data[fd]: the FdCtx m_datas[fd] holds, 0 if none
    made,       \* made[fd]: FdCtx objects created for fd
    pc,         \* "idle" or "create" (between the two locks of get)
    arg,        \* arg[t]: the fd of t's call
    got,        \* got[t]: the FdCtx t's last get returned, 0 for nullptr
    held,       \* held[fd]: the FdCtx its owner's get(fd, true) returned
    oob,        \* an index at or past m_datas.size() happened
    ops         \* calls made

vars == <<size, data, made, pc, arg, got, held, oob, ops>>

Init ==
    /\ size = InitSize
    /\ data = [fd \in Fds |-> 0]
    /\ made = [fd \in Fds |-> 0]
    /\ pc = [t \in Threads |-> "idle"]
    /\ arg = [t \in Threads |-> CHOOSE fd \in Fds : TRUE]
    /\ got = [t \in Threads |-> 0]
    /\ held = [fd \in Fds |-> 0]
    /\ oob = FALSE
    /\ ops = 0

\* m_datas[fd]: past the end it is an out-of-bounds access, whose value
\* the build does not fix; the model reads null.
At(fd) == IF fd < size THEN data[fd] ELSE 0

-----------------------------------------------------------------------------
\* get, under the read lock.  (int)m_datas.size() < fd sends fd == size to
\* the indexing branch.  A hit, or no auto_create, returns m_datas[fd];
\* otherwise go create.
GetLookup(t, fd, create) ==
    /\ pc[t] = "idle" /\ ops < MaxOps
    /\ create => (Owner[fd] = t /\ held[fd] = 0)
    /\ arg' = [arg EXCEPT ![t] = fd]
    /\ ops' = ops + 1
    /\ IF size < fd
         THEN IF create
                THEN pc' = [pc EXCEPT ![t] = "create"] /\ UNCHANGED <<got, oob>>
                ELSE got' = [got EXCEPT ![t] = 0] /\ UNCHANGED <<pc, oob>>
         ELSE /\ oob' = (oob \/ fd >= size)
              /\ IF At(fd) # 0 \/ ~create
                   THEN got' = [got EXCEPT ![t] = At(fd)] /\ UNCHANGED pc
                   ELSE pc' = [pc EXCEPT ![t] = "create"] /\ UNCHANGED got
    /\ UNCHANGED <<size, data, made, held>>

\* get, under the write lock: new FdCtx(fd), grow when fd does not fit,
\* store and return it.
GrowAlways(fd) == (fd * 3) \div 2
Grow(fd) == IF fd >= size THEN (fd * 3) \div 2 ELSE size
GetCreate(t) ==
    LET fd == arg[t]
        n  == Grow(fd)
    IN  /\ pc[t] = "create"
        /\ size' = n
        /\ made' = [made EXCEPT ![fd] = @ + 1]
        /\ data' = [f \in Fds |-> IF f = fd THEN made[fd] + 1
                                  ELSE IF f >= n THEN 0 ELSE data[f]]
        /\ got' = [got EXCEPT ![t] = made[fd] + 1]
        /\ held' = [held EXCEPT ![fd] = made[fd] + 1]
        /\ oob' = (oob \/ fd >= n)
        /\ pc' = [pc EXCEPT ![t] = "idle"]
        /\ UNCHANGED <<arg, ops>>

\* del, under the write lock: m_datas[fd].reset() unless size < fd.
DelUnchecked(t, fd) ==
    /\ pc[t] = "idle" /\ ops < MaxOps
    /\ ops' = ops + 1
    /\ oob' = (oob \/ fd >= size)
    /\ data' = [data EXCEPT ![fd] = IF fd < size THEN 0 ELSE @]
    /\ held' = [held EXCEPT ![fd] = 0]
    /\ UNCHANGED <<size, made, pc, arg, got>>
Del(t, fd) ==
    /\ pc[t] = "idle" /\ ops < MaxOps
    /\ ops' = ops + 1
    /\ IF size < fd
         THEN UNCHANGED <<data, held, oob>>
         ELSE /\ oob' = (oob \/ fd >= size)
              /\ data' = [data EXCEPT ![fd] = IF fd < size THEN 0 ELSE @]
              /\ held' = [held EXCEPT ![fd] = 0]
    /\ UNCHANGED <<size, made, pc, arg, got>>

Done == ops = MaxOps /\ \A t \in Threads : pc[t] = "idle" /\ UNCHANGED vars

Next ==
    \/ \E t \in Threads :
          \/ \E fd \in Fds, c \in BOOLEAN : GetLookup(t, fd, c)
          \/ GetCreate(t)
          \/ \E fd \in Fds : Del(t, fd)
    \/ Done

Spec == Init /\ [][Next]_vars

-----------------------------------------------------------------------------
\* Once get(fd, true) has returned an FdCtx to fd's owner, every later
\* get(fd) sees that same FdCtx until del(fd): the flags Socket and the
\* hooks store in it (timeouts, O_NONBLOCK) are not lost when another
\* thread's get grows m_datas for a different fd.
CreatedCtxKept == \A fd \in Fds : held[fd] # 0 => At(fd) = held[fd]

\* get and del never index m_datas at or past its size.
InBounds == ~oob
=============================================================================
