--------------------------- MODULE MqxLwsem_proof ---------------------------
(***************************************************************************)
(* The safety invariants of the lightweight semaphores, for any number of    *)
(* tasks, priorities, semaphores, posts and delays.                          *)
(*                                                                           *)
(* A waiter leaves the queue of its semaphore in three ways: a post takes it *)
(* off and clears INFO, the timer or a destroy takes it off and leaves INFO. *)
(* The proof is about what a blocked task may then conclude from INFO and    *)
(* VALID: TokensConserved is not inductive without it.                       *)
(***************************************************************************)
EXTENDS MqxLwsem, MqxKernel_proof

\* What call[t], the descriptor of t and the queue of the semaphore say agrees.
CallOK(t) ==
    LET s == call[t].sem
    IN  /\ call[t].at = "none" => call[t] = NoCall
        /\ call[t].at # "none" => s \in Sem /\ t # Idle
        /\ call[t].at # "blocked" => k.TD_STATE[t] = "READY"
        /\ call[t].at = "blocked" =>
              \/ /\ k.TD_STATE[t] = "LWSEM_BLOCKED" /\ k.INFO[t] = s
                 /\ t \in k.ON_TIMEOUT_Q => call[t].timed
              \/ /\ k.TD_STATE[t] = "READY" /\ t \notin k.ON_TIMEOUT_Q
                 /\ k.INFO[t] \in {NULL, s}
                 /\ k.INFO[t] = s /\ VALID[s] => call[t].timed

CallsOK == \A t \in Task : CallOK(t)

\* A semaphore under creation is used by nobody else.
CreatesOK ==
    \A t \in Task : call[t].at \in {"create", "create_hidden"} =>
        LET s == call[t].sem
        IN  /\ ~VALID[s] /\ credit[s] = VALUE[s]
            /\ \A u \in Task \ {t} : call[u].sem # s

\* The inductive invariant.
Inv ==
    /\ TypeOK /\ Consistent(k)
    /\ CallsOK /\ CreatesOK
    /\ TokensConserved /\ NoLostWakeup

(***************************************************************************)
(* Consequences of the invariant.                                           *)
(***************************************************************************)
\* Where the invariant leaves the active task.
LEMMA Facts ==
    ASSUME Inv, NEW a, a = k.ACTIVE_PTR
    PROVE  /\ k \in Kernel /\ a \in Task /\ Unscheduled(k) /\ KInv(k, {}) /\ WaitInv(k)
           /\ IsReady(k, a) /\ k.TD_STATE[a] = "READY" /\ a \notin k.ON_TIMEOUT_Q
           /\ k.TD_STATE \in [Task -> State] /\ k.INFO \in [Task -> Info]
           /\ k.QUEUE \in [Queue -> Seq(Task)] /\ k.ON_TIMEOUT_Q \in SUBSET Task
           /\ VALID \in [Sem -> BOOLEAN] /\ VALUE \in [Sem -> Int] /\ LWSEM \in SUBSET Sem
           /\ call \in [Task -> Calls] /\ credit \in [Sem -> Int] /\ created \in [Sem -> Nat]
           /\ Sem = Queue /\ NULL \notin Sem
BY KernelFields, KernelAssumption
   DEF Inv, TypeOK, Consistent, Unscheduled, KInv, RunningOK, IsReady, Sem

\* The fields of a call.
LEMMA CallFields ==
    ASSUME NEW c \in Calls
    PROVE  /\ c.at \in {"none", "wait", "blocked", "post", "poll", "create", "create_hidden"}
           /\ c.sem \in Sem \cup {NULL} /\ c.timed \in BOOLEAN /\ c.ticks \in Int
BY DEF Calls

\* NoCall is a call, and so is every call that can be entered.
LEMMA CallTypes ==
    /\ NoCall \in Calls /\ NoCall.at = "none" /\ NoCall.sem = NULL
    /\ \A at \in {"wait", "blocked", "post", "poll", "create", "create_hidden"}, s \in Sem,
          b \in BOOLEAN, n \in Int :
             [at |-> at, sem |-> s, timed |-> b, ticks |-> n] \in Calls
BY DEF NoCall, Calls

\* A task on the queue of a semaphore is blocked in a wait for it.
LEMMA WaitersBlocked ==
    ASSUME Inv, NEW s \in Sem, NEW t \in Elems(k.QUEUE[s])
    PROVE  /\ t \in Task /\ t # k.ACTIVE_PTR /\ call[t].at = "blocked" /\ call[t].sem = s
           /\ k.TD_STATE[t] = "LWSEM_BLOCKED" /\ k.INFO[t] = s
<1>1. t \in Task
  BY Facts, EmptyQueue
<1>2. k.TD_STATE[t] \in WaitStates /\ k.INFO[t] = s
  BY <1>1, Facts DEF WaitInv, WaitQueuesOK, WaitStates
<1>3. k.TD_STATE[t] # "READY"
  BY <1>2, States
<1>4. CallOK(t)
  BY <1>1 DEF Inv, CallsOK
<1> QED
  BY <1>1, <1>2, <1>3, <1>4, Facts DEF CallOK

\* In the calls c and with the INFO words i: the tasks blocked on s that were given it.
Holders(c, i, s) == {t \in Task : c[t].at = "blocked" /\ c[t].sem = s /\ i[t] = NULL}

\* A task on the queue of a semaphore has that one in INFO, so Granted need not say so.
LEMMA GrantedIsHolders ==
    ASSUME NEW j, WaitInv(j), NEW c, NEW s \in Sem
    PROVE  {t \in Task : /\ c[t].at = "blocked" /\ c[t].sem = s
                         /\ t \notin Elems(j.QUEUE[s]) /\ j.INFO[t] = NULL}
              = Holders(c, j.INFO, s)
<1>1. s \in Queue /\ s # NULL
  BY KernelAssumption DEF Sem
<1>2. \A t \in Task : t \in Elems(j.QUEUE[s]) => j.INFO[t] = s
  BY <1>1 DEF WaitInv, WaitQueuesOK
<1> QED
  BY <1>1, <1>2 DEF Holders

\* Counting them.
LEMMA HoldersCount ==
    ASSUME NEW c, NEW i, NEW s
    PROVE  /\ IsFiniteSet(Holders(c, i, s)) /\ Cardinality(Holders(c, i, s)) \in Nat
           /\ \A t \in Task : t \notin Holders(c, i, s) =>
                Cardinality(Holders(c, i, s) \cup {t}) = Cardinality(Holders(c, i, s)) + 1
<1>1. Holders(c, i, s) \subseteq Task /\ IsFiniteSet(Task)
  BY KernelAssumption DEF Holders
<1>2. IsFiniteSet(Holders(c, i, s))
  BY <1>1, FS_Subset
<1> QED
  BY <1>2, FS_AddElement, FS_CardinalityType

\* TokensConserved in terms of Holders.
Tokens(c, j, valid, value, cr) ==
    \A s \in Sem : valid[s] => cr[s] = value[s] + Cardinality(Holders(c, j.INFO, s))

\* The two say the same of a state, and of the next one.
LEMMA TokensIs ==
    /\ WaitInv(k) => (TokensConserved <=> Tokens(call, k, VALID, VALUE, credit))
    /\ WaitInv(k') => (TokensConserved' <=> Tokens(call', k', VALID', VALUE', credit'))
<1>1. WaitInv(k) => \A s \in Sem : Granted(s) = Holders(call, k.INFO, s)
  BY GrantedIsHolders DEF Granted
<1>2. WaitInv(k') => \A s \in Sem : Granted(s)' = Holders(call', (k').INFO, s)
  BY GrantedIsHolders DEF Granted
<1> QED
  BY <1>1, <1>2 DEF TokensConserved, Tokens

(***************************************************************************)
(* One lemma per action.                                                    *)
(***************************************************************************)
\* A call of the active task that neither blocks it nor lets it create changes no kernel
\* data: this is what is left to show of the calls.
LEMMA CallStep ==
    ASSUME Inv, NEW a \in Task, a = k.ACTIVE_PTR, k' = k, call' \in [Task -> Calls],
           \A t \in Task \ {a} : call'[t] = call[t]
    PROVE  /\ Consistent(k') /\ WaitInv(k')
           /\ \A t \in Task \ {a} : VALID' = VALID => CallOK(t)'
<1>1. Consistent(k') /\ WaitInv(k')
  BY DEF Inv, Consistent
<1>2. ASSUME NEW t \in Task \ {a}, VALID' = VALID
      PROVE  CallOK(t)'
  BY <1>2 DEF Inv, CallsOK, CallOK
<1> QED
  BY <1>1, <1>2

\* Entering a wait, a poll or a post: VALID has been found set.
LEMMA EnterInv ==
    ASSUME Inv, NEW a \in Task, a = k.ACTIVE_PTR, NEW at \in {"wait", "poll", "post"}, NEW s \in Sem, VALID[s],
           NEW b \in BOOLEAN, NEW n \in Int, Enter(at, s, b, n),
           UNCHANGED <<k, VALID, VALUE, LWSEM, credit, created>>
    PROVE  Inv'
<1> DEFINE c == [at |-> at, sem |-> s, timed |-> b, ticks |-> n]
<1>1. /\ call' = [call EXCEPT ![a] = c] /\ call[a] = NoCall /\ a # Idle
      /\ c \in Calls /\ c.at = at /\ c.sem = s /\ a \in Task
      /\ call \in [Task -> Calls]
  BY Facts, CallTypes DEF Enter
<1> HIDE DEF c
<1>2. call' \in [Task -> Calls] /\ call'[a] = c /\ \A t \in Task \ {a} : call'[t] = call[t]
  BY <1>1
<1>3. Consistent(k') /\ WaitInv(k') /\ \A t \in Task \ {a} : CallOK(t)'
  BY <1>2, CallStep
<1>4. TypeOK'
  BY <1>2 DEF Inv, TypeOK
<1>5. CallOK(a)'
  BY <1>1, <1>2, Facts DEF CallOK
<1>6. CallsOK'
  BY <1>3, <1>5 DEF CallsOK
<1>7. CreatesOK'
  <2>1. call'[a].at \notin {"create", "create_hidden"} /\ call'[a].sem = s
    BY <1>1, <1>2
  <2> SUFFICES ASSUME NEW t \in Task, call'[t].at \in {"create", "create_hidden"}
               PROVE  /\ ~VALID[call'[t].sem] /\ credit[call'[t].sem] = VALUE[call'[t].sem]
                      /\ \A u \in Task \ {t} : call'[u].sem # call'[t].sem
    BY DEF CreatesOK
  <2>2. t # a /\ call'[t] = call[t]
    BY <1>2, <2>1
  <2>3. /\ ~VALID[call[t].sem] /\ credit[call[t].sem] = VALUE[call[t].sem]
        /\ \A u \in Task \ {t} : call[u].sem # call[t].sem
    BY <2>2 DEF Inv, CreatesOK
  <2> QED
    BY <1>2, <2>1, <2>2, <2>3
<1>8. \A r \in Sem : Holders(call', k'.INFO, r) = Holders(call, k.INFO, r)
  <2>1. call[a].at # "blocked" /\ call'[a].at # "blocked"
    BY <1>1, <1>2, CallTypes
  <2> QED
    BY <1>2, <2>1 DEF Holders
<1>9. TokensConserved'
  BY <1>3, <1>8, TokensIs, Facts DEF Inv, Tokens
<1>10. NoLostWakeup'
  BY DEF Inv, NoLostWakeup
<1> QED
  BY <1>3, <1>4, <1>6, <1>7, <1>9, <1>10 DEF Inv

\* A call of the active task that did not block and does not block changes no Holders.
LEMMA HoldersCall ==
    ASSUME NEW c, NEW d, NEW i, NEW a \in Task, c[a].at # "blocked", d[a].at # "blocked",
           \A t \in Task \ {a} : d[t] = c[t]
    PROVE  \A r \in Sem : Holders(d, i, r) = Holders(c, i, r)
BY DEF Holders

\* Nobody holds what nobody uses.
LEMMA HoldersNone ==
    ASSUME NEW c, NEW i, NEW s, \A t \in Task : c[t].at = "blocked" => c[t].sem # s
    PROVE  Cardinality(Holders(c, i, s)) = 0
<1>1. Holders(c, i, s) = {}
  BY DEF Holders
<1> QED
  BY <1>1, FS_EmptySet

\* _lwsem_create_internal writes the structure of a semaphore that nobody uses: its queue
\* was empty.
LEMMA CreateInitInv ==
    ASSUME Inv, NEW a \in Task, a = k.ACTIVE_PTR, NEW at \in {"create", "create_hidden"},
           NEW s \in Sem, NEW v \in Int, CreateInit(s, v, at)
    PROVE  Inv'
<1> DEFINE c == [at |-> at, sem |-> s, timed |-> FALSE, ticks |-> 0]
<1>1. /\ call' = [call EXCEPT ![a] = c] /\ call[a] = NoCall /\ a # Idle
      /\ c \in Calls /\ c.at = at /\ c.sem = s
      /\ call \in [Task -> Calls]
  <2>1. call' = [call EXCEPT ![a] = c] /\ call[a] = NoCall /\ a # Idle
    BY DEF CreateInit, Enter
  <2>2. c \in Calls /\ c.at = at /\ c.sem = s
    BY DEF Calls
  <2> QED
    BY <2>1, <2>2, Facts
<1>2. /\ ~VALID[s] /\ \A t \in Task : call[t].sem # s
      /\ VALUE' = [VALUE EXCEPT ![s] = v] /\ credit' = [credit EXCEPT ![s] = v]
      /\ created' = [created EXCEPT ![s] = @ + 1]
      /\ VALID' = VALID /\ LWSEM' = LWSEM /\ k' = [k EXCEPT !.QUEUE[s] = <<>>]
  BY DEF CreateInit, NotInUse
<1> HIDE DEF c
<1>3. call' \in [Task -> Calls] /\ call'[a] = c /\ \A t \in Task \ {a} : call'[t] = call[t]
  BY <1>1
<1>4. k.QUEUE[s] = <<>>
  <2>1. k.QUEUE[s] \in Seq(Task)
    BY Facts
  <2>2. \A t \in Elems(k.QUEUE[s]) : FALSE
    BY <1>2, WaitersBlocked
  <2> QED
    BY <2>1, <2>2, EmptyQueue
<1>5. k' = k
  <2>1. [k.QUEUE EXCEPT ![s] = <<>>] = k.QUEUE
    BY <1>4, Facts
  <2>2. k \in Kernel
    BY Facts
  <2> QED
    BY <1>2, <2>1, <2>2 DEF Kernel
<1>6. Consistent(k') /\ WaitInv(k') /\ \A t \in Task \ {a} : CallOK(t)'
  BY <1>2, <1>3, <1>5, CallStep
<1>7. TypeOK'
  <2>1. VALUE' \in [Sem -> Int] /\ credit' \in [Sem -> Int] /\ created' \in [Sem -> Nat]
    BY <1>2, Facts
  <2> QED
    BY <1>2, <1>3, <1>5, <2>1 DEF Inv, TypeOK
<1>8. CallOK(a)'
  BY <1>1, <1>3, <1>5, Facts DEF CallOK
<1>9. CallsOK'
  BY <1>6, <1>8 DEF CallsOK
<1>10. CreatesOK'
  <2> SUFFICES ASSUME NEW t \in Task, call'[t].at \in {"create", "create_hidden"}
               PROVE  /\ ~VALID[call'[t].sem] /\ credit'[call'[t].sem] = VALUE'[call'[t].sem]
                      /\ \A u \in Task \ {t} : call'[u].sem # call'[t].sem
    BY <1>2 DEF CreatesOK
  <2>1. CASE t = a
    BY <1>1, <1>2, <1>3, <2>1, Facts
  <2>2. CASE t # a
    <3>1. call'[t] = call[t] /\ call[t].sem # s
      BY <1>2, <1>3, <2>2
    <3>2. /\ ~VALID[call[t].sem] /\ credit[call[t].sem] = VALUE[call[t].sem]
          /\ \A u \in Task \ {t} : call[u].sem # call[t].sem
      BY <3>1 DEF Inv, CreatesOK
    <3>3. credit'[call[t].sem] = credit[call[t].sem] /\ VALUE'[call[t].sem] = VALUE[call[t].sem]
      <4>1. call[t].sem \in Sem
        BY <3>1 DEF Inv, CallsOK, CallOK
      <4> QED
        BY <1>2, <3>1, <4>1, Facts
    <3> QED
      BY <1>1, <1>3, <3>1, <3>2, <3>3
  <2> QED
    BY <2>1, <2>2
<1>11. TokensConserved'
  <2>1. \A r \in Sem : Holders(call', k.INFO, r) = Holders(call, k.INFO, r)
    <3>1. call[a].at # "blocked" /\ call'[a].at # "blocked"
      BY <1>1, <1>3, CallTypes
    <3> QED
      BY <1>3, <3>1, HoldersCall
  <2>2. \A r \in Sem : VALID[r] => credit'[r] = credit[r] /\ VALUE'[r] = VALUE[r]
    BY <1>2, Facts
  <2> QED
    BY <1>2, <1>5, <1>6, <2>1, <2>2, TokensIs, Facts DEF Inv, Tokens
<1>12. NoLostWakeup'
  BY <1>2, <1>4, <1>5, Facts DEF Inv, NoLostWakeup
<1> QED
  BY <1>6, <1>7, <1>9, <1>10, <1>11, <1>12 DEF Inv

\* _lwsem_create and _lwsem_create_hidden make the semaphore valid, or not.
LEMMA CreateInv ==
    ASSUME Inv, NEW a \in Task, a = k.ACTIVE_PTR, NEW s \in Sem,
           lwsem_create(s) \/ lwsem_create_hidden(s)
    PROVE  Inv'
<1>1. /\ call[a].at \in {"create", "create_hidden"} /\ call[a].sem = s
      /\ call' = [call EXCEPT ![a] = NoCall]
      /\ VALID' \in {VALID, [VALID EXCEPT ![s] = TRUE]} /\ LWSEM' \in {LWSEM, LWSEM \cup {s}}
      /\ k' = k /\ VALUE' = VALUE /\ credit' = credit /\ created' = created
  BY DEF lwsem_create, lwsem_create_hidden, GoOn, Leave
<1>2. /\ call' \in [Task -> Calls] /\ call'[a] = NoCall
      /\ \A t \in Task \ {a} : call'[t] = call[t]
  BY <1>1, Facts, CallTypes
<1>3. VALID' \in [Sem -> BOOLEAN] /\ \A r \in Sem \ {s} : VALID'[r] = VALID[r]
  BY <1>1, Facts
<1>4. ~VALID[s] /\ credit[s] = VALUE[s] /\ \A u \in Task \ {a} : call[u].sem # s
  BY <1>1 DEF Inv, CreatesOK
<1>5. Consistent(k') /\ WaitInv(k')
  BY <1>1 DEF Inv, Consistent
<1>6. TypeOK'
  BY <1>1, <1>2, <1>3, Facts DEF TypeOK
<1>7. CallsOK'
  <2>1. CallOK(a)'
    BY <1>1, <1>2, CallTypes, Facts DEF CallOK
  <2>2. ASSUME NEW t \in Task \ {a}
        PROVE  CallOK(t)'
    <3>1. CallOK(t) /\ call'[t] = call[t] /\ call[t].sem # s
      BY <1>2, <1>4 DEF Inv, CallsOK
    <3>2. call[t].at = "blocked" => VALID'[call[t].sem] = VALID[call[t].sem]
      BY <1>3, <3>1 DEF CallOK
    <3> QED
      BY <1>1, <3>1, <3>2 DEF CallOK
  <2> QED
    BY <2>1, <2>2 DEF CallsOK
<1>8. CreatesOK'
  <2> SUFFICES ASSUME NEW t \in Task, call'[t].at \in {"create", "create_hidden"}
               PROVE  /\ ~VALID'[call'[t].sem] /\ credit[call'[t].sem] = VALUE[call'[t].sem]
                      /\ \A u \in Task \ {t} : call'[u].sem # call'[t].sem
    BY <1>1 DEF CreatesOK
  <2>1. t # a /\ call'[t] = call[t] /\ call[t].sem # s /\ call[t].sem \in Sem
    BY <1>2, <1>4, CallTypes DEF Inv, CallsOK, CallOK
  <2>2. /\ ~VALID[call[t].sem] /\ credit[call[t].sem] = VALUE[call[t].sem]
        /\ \A u \in Task \ {t} : call[u].sem # call[t].sem
    BY <2>1 DEF Inv, CreatesOK
  <2>3. call'[a].sem # call[t].sem
    BY <1>2, <2>1, CallTypes, Facts
  <2> QED
    BY <1>2, <1>3, <2>1, <2>2, <2>3
<1>9. TokensConserved'
  <2>1. call[a].at # "blocked" /\ call'[a].at # "blocked"
    BY <1>1, <1>2, CallTypes
  <2>2. \A r \in Sem : Holders(call', k.INFO, r) = Holders(call, k.INFO, r)
    BY <1>2, <2>1, HoldersCall
  <2>3. Cardinality(Holders(call, k.INFO, s)) = 0
    <3>1. \A t \in Task : call[t].at = "blocked" => call[t].sem # s
      BY <1>4, <2>1
    <3> QED
      BY <3>1, HoldersNone
  <2>4. Tokens(call, k, VALID, VALUE, credit)
    BY <1>1, <1>5, TokensIs DEF Inv
  <2>5. ASSUME NEW r \in Sem, VALID'[r]
        PROVE  credit[r] = VALUE[r] + Cardinality(Holders(call', k.INFO, r))
    <3>1. CASE r = s
      BY <1>4, <2>2, <2>3, <3>1, Facts
    <3>2. CASE r # s
      BY <1>3, <2>2, <2>4, <2>5, <3>2 DEF Tokens
    <3> QED
      BY <3>1, <3>2
  <2> QED
    BY <1>1, <1>5, <2>5, TokensIs DEF Tokens
<1>10. NoLostWakeup'
  BY <1>1 DEF Inv, NoLostWakeup
<1> QED
  BY <1>5, <1>6, <1>7, <1>8, <1>9, <1>10 DEF Inv

\* VALID' is VALID, or one semaphore has been destroyed.
Invalidated ==
    /\ VALID' \in [Sem -> BOOLEAN]
    /\ \A r \in Sem : VALID'[r] => VALID[r]

\* The tasks of S have been readied without being given what they waited for: they were
\* waiting with a timeout, or the semaphore is gone.
LEMMA ReadiedCalls ==
    ASSUME Inv, NEW S \in SUBSET Task, Readied(k, k', S), k'.INFO = k.INFO, call' = call,
           Invalidated,
           \A t \in S : call[t].at = "blocked" /\ k.TD_STATE[t] # "READY" /\ VALID'[call[t].sem]
                           => call[t].timed
    PROVE  CallsOK'
<1> SUFFICES ASSUME NEW t \in Task
             PROVE  CallOK(t)'
  BY DEF CallsOK
<1>1. CallOK(t)
  BY DEF Inv, CallsOK
<1>2. /\ k'.TD_STATE[t] = (IF t \in S THEN "READY" ELSE k.TD_STATE[t])
      /\ t \in k'.ON_TIMEOUT_Q <=> t \in k.ON_TIMEOUT_Q /\ t \notin S
      /\ k'.INFO[t] = k.INFO[t]
  BY DEF Readied
<1>3. call[t].at = "blocked" => (VALID'[call[t].sem] => VALID[call[t].sem])
  BY <1>1 DEF CallOK, Invalidated
<1>4. CASE call[t].at # "blocked"
  BY <1>1, <1>2, <1>4 DEF CallOK
<1>5. CASE call[t].at = "blocked"
  <2>1. CASE t \in S
    BY <1>1, <1>2, <1>3, <1>5, <2>1 DEF CallOK
  <2>2. CASE t \notin S
    BY <1>1, <1>2, <1>3, <1>5, <2>2 DEF CallOK
  <2> QED
    BY <2>1, <2>2
<1> QED
  BY <1>4, <1>5

\* The rest of what such a step has to keep.
LEMMA ReadiedRest ==
    ASSUME Inv, Consistent(k'), k'.INFO = k.INFO, Invalidated,
           UNCHANGED <<VALUE, call, credit, created>>, LWSEM' \in SUBSET Sem,
           \A r \in Sem : k.QUEUE[r] = <<>> => k'.QUEUE[r] = <<>>
    PROVE  TypeOK' /\ CreatesOK' /\ TokensConserved' /\ NoLostWakeup'
<1>1. k' \in Kernel /\ WaitInv(k') /\ WaitInv(k)
  BY DEF Inv, Consistent, KInv
<1>2. TypeOK'
  BY <1>1 DEF Inv, TypeOK, Invalidated
<1>3. CreatesOK'
  <2> SUFFICES ASSUME NEW t \in Task, call[t].at \in {"create", "create_hidden"}
               PROVE  /\ ~VALID'[call[t].sem] /\ credit[call[t].sem] = VALUE[call[t].sem]
                      /\ \A u \in Task \ {t} : call[u].sem # call[t].sem
    BY DEF CreatesOK
  <2>1. call[t].sem \in Sem
    BY DEF Inv, CallsOK, CallOK
  <2> QED
    BY <2>1 DEF Inv, CreatesOK, Invalidated
<1>4. TokensConserved'
  <2>1. Tokens(call, k, VALID, VALUE, credit)
    BY <1>1, TokensIs DEF Inv
  <2>2. Tokens(call', k', VALID', VALUE', credit')
    BY <2>1 DEF Tokens, Invalidated
  <2> QED
    BY <1>1, <2>2, TokensIs
<1>5. NoLostWakeup'
  BY DEF Inv, NoLostWakeup
<1> QED
  BY <1>2, <1>3, <1>4, <1>5

\* _lwsem_destroy: every waiter is readied, and finds VALID cleared.
LEMMA DestroyInv ==
    ASSUME Inv, NEW s \in Sem, lwsem_destroy(s)
    PROVE  Inv'
<1> DEFINE v == ReleaseAll(k, s)
           S == Elems(k.QUEUE[s])
<1>1. /\ VALID' = [VALID EXCEPT ![s] = FALSE] /\ LWSEM' = LWSEM \ {s}
      /\ k' = CHECK_RUN_SCHEDULER(v) /\ UNCHANGED <<VALUE, call, credit, created>>
  BY DEF lwsem_destroy
<1>2. Unscheduled(k) /\ s \in Queue /\ k.QUEUE \in [Queue -> Seq(Task)]
  BY Facts
<1>3. /\ Unscheduled(v) /\ Readied(k, v, S)
      /\ v.QUEUE = [k.QUEUE EXCEPT ![s] = <<>>] /\ v.INFO = k.INFO
  BY <1>2, ReleaseAllWait
<1> HIDE DEF v
<1>4. Consistent(k') /\ OnlySwitched(v, k')
  BY <1>1, <1>3, CheckRunWait
<1>5. /\ Readied(k, k', S) /\ k'.INFO = k.INFO
      /\ k'.QUEUE = [k.QUEUE EXCEPT ![s] = <<>>]
  BY <1>3, <1>4 DEF OnlySwitched, Readied
<1>6. Invalidated /\ ~VALID'[s] /\ LWSEM' \in SUBSET Sem
  BY <1>1, Facts DEF Invalidated
<1>7. S \in SUBSET Task /\ \A t \in S : call[t].sem = s
  BY WaitersBlocked
<1>8. CallsOK'
  BY <1>1, <1>5, <1>6, <1>7, ReadiedCalls
<1>9. \A r \in Sem : k.QUEUE[r] = <<>> => k'.QUEUE[r] = <<>>
  BY <1>2, <1>5 DEF Sem
<1>10. TypeOK' /\ CreatesOK' /\ TokensConserved' /\ NoLostWakeup'
  BY <1>1, <1>4, <1>5, <1>6, <1>9, ReadiedRest
<1> QED
  BY <1>4, <1>8, <1>10 DEF Inv

\* The timer interrupt: a waiter whose time has come keeps INFO, so that it will find that
\* nobody posted.
LEMMA TickStepInv ==
    ASSUME Inv, Tick
    PROVE  Inv'
<1>1. k' = IsrReturn(time_notify_kernel(k)) /\ UNCHANGED <<VALID, VALUE, LWSEM, call, credit, created>>
  BY DEF Tick
<1>2. Unscheduled(k) /\ k \in Kernel /\ WaitInv(k) /\ k.ON_TIMEOUT_Q \in SUBSET Task
  BY Facts
<1>3. Consistent(k') /\ \E S \in SUBSET k.ON_TIMEOUT_Q : TimedOut(k, k', S)
  BY <1>1, <1>2, TickWait
<1>4. PICK S \in SUBSET k.ON_TIMEOUT_Q : TimedOut(k, k', S)
  BY <1>3
<1>5. /\ Readied(k, k', S) /\ k'.INFO = k.INFO /\ k'.QUEUE = LeaveAuxQueues(k, S)
      /\ S \in SUBSET Task
  BY <1>2, <1>4 DEF TimedOut
<1>6. Invalidated /\ LWSEM' \in SUBSET Sem
  BY <1>1, Facts DEF Invalidated
<1>7. \A t \in S : call[t].at = "blocked" /\ k.TD_STATE[t] # "READY" => call[t].timed
  BY <1>5 DEF Inv, CallsOK, CallOK
<1>8. CallsOK'
  BY <1>1, <1>5, <1>6, <1>7, ReadiedCalls
<1>9. ASSUME NEW r \in Sem, k.QUEUE[r] = <<>>
      PROVE  k'.QUEUE[r] = <<>>
  <2>1. r \in Queue /\ Elems(k.QUEUE[r]) = {}
    BY <1>9 DEF Sem, Elems
  <2>2. k'.QUEUE[r] \in Seq(Task) /\ Elems(k'.QUEUE[r]) = Elems(k.QUEUE[r]) \ S
    <3>1. \A o \in Queue : /\ LeaveAuxQueues(k, S)[o] \in Seq(Task)
                           /\ Elems(LeaveAuxQueues(k, S)[o]) = Elems(k.QUEUE[o]) \ S
      BY <1>2, <1>4, LeaveAuxElems
    <3> QED
      BY <1>5, <2>1, <3>1
  <2> QED
    BY <2>1, <2>2, EmptyQueue
<1>10. TypeOK' /\ CreatesOK' /\ TokensConserved' /\ NoLostWakeup'
  BY <1>1, <1>3, <1>5, <1>6, <1>9, ReadiedRest
<1> QED
  BY <1>3, <1>8, <1>10 DEF Inv

\* _time_delay_ticks between two semaphore calls.
LEMMA SleepInv ==
    ASSUME Inv, NEW a \in Task, a = k.ACTIVE_PTR, NEW n \in Int, time_delay_ticks(n)
    PROVE  Inv'
<1>1. /\ a # Idle /\ call[a] = NoCall /\ k' = time_delay_internal(k, a, n)
      /\ UNCHANGED <<VALID, VALUE, LWSEM, call, credit, created>>
  BY DEF time_delay_ticks
<1>2. KInv(k, {}) /\ WaitInv(k) /\ IsReady(k, a)
  BY Facts
<1>3. /\ Consistent(k')
      /\ k'.TD_STATE = k.TD_STATE /\ k'.INFO = k.INFO /\ k'.QUEUE = k.QUEUE
      /\ k'.ON_TIMEOUT_Q = k.ON_TIMEOUT_Q \cup {a}
  BY <1>1, <1>2, DelayWait
<1>4. Invalidated /\ LWSEM' \in SUBSET Sem
  BY <1>1, Facts DEF Invalidated
<1>5. CallsOK'
  <2> SUFFICES ASSUME NEW t \in Task
               PROVE  CallOK(t)'
    BY DEF CallsOK
  <2>1. CallOK(t)
    BY DEF Inv, CallsOK
  <2>2. t = a => call[t].at # "blocked"
    BY <1>1, CallTypes
  <2> QED
    BY <1>1, <1>3, <2>1, <2>2 DEF CallOK
<1>6. \A r \in Sem : k.QUEUE[r] = <<>> => k'.QUEUE[r] = <<>>
  BY <1>3
<1>7. TypeOK' /\ CreatesOK' /\ TokensConserved' /\ NoLostWakeup'
  BY <1>1, <1>3, <1>4, <1>6, ReadiedRest
<1> QED
  BY <1>3, <1>5, <1>7 DEF Inv

\* _lwsem_wait finds no token: the task joins the queue, with INFO naming the semaphore.
LEMMA WaitBlockInv ==
    ASSUME Inv, NEW a \in Task, a = k.ACTIVE_PTR, NEW s \in Sem, lwsem_wait(s),
           VALUE[s] <= 0
    PROVE  Inv'
<1> DEFINE st == "LWSEM_BLOCKED"
           q == Append(k.QUEUE[s], a)
           w == Waiting(k, a, s, st, q)
           b == call[a].timed
           n == call[a].ticks
<1>1. /\ call[a].at = "wait" /\ call[a].sem = s
      /\ k' = WaitBlock(s, b, n)
      /\ call' = [call EXCEPT ![a].at = "blocked"]
      /\ UNCHANGED <<VALID, VALUE, LWSEM, credit, created>>
  BY DEF lwsem_wait, GoOn
<1>2. k' = IF b THEN time_delay_internal(w, a, n) ELSE Dispatch(UnlinkReady(w, a))
  BY <1>1 DEF WaitBlock, Waiting
<1>3. a # Idle /\ b \in BOOLEAN /\ n \in Int /\ call[a] \in Calls
  <2>1. call[a] \in Calls
    BY Facts
  <2>2. a # Idle
    BY <1>1 DEF Inv, CallsOK, CallOK
  <2> QED
    BY <2>1, <2>2, CallFields
<1>4. /\ KInv(k, {}) /\ WaitInv(k) /\ IsReady(k, a) /\ s \in Queue
      /\ k.TD_STATE \in [Task -> State] /\ k.INFO \in [Task -> Info]
      /\ k.QUEUE \in [Queue -> Seq(Task)] /\ k.QUEUE[s] \in Seq(Task)
  BY Facts
<1>5. st \in WaitStates /\ st \in AuxStates
  BY DEF WaitStates, AuxStates
<1>6. q \in Seq(Task) /\ NoDuplicates(q) /\ Elems(q) = Elems(k.QUEUE[s]) \cup {a}
  <2>1. a \notin Elems(k.QUEUE[s]) /\ NoDuplicates(k.QUEUE[s])
    BY <1>4, WaitersBlocked DEF WaitInv, WaitQueuesOK
  <2> QED
    BY <1>4, <2>1, AppendElems
<1> HIDE DEF b, n, st, q
<1>7. /\ Consistent(k') /\ Joined(k, k', a, s, st, q)
      /\ k'.ON_TIMEOUT_Q \in {k.ON_TIMEOUT_Q, k.ON_TIMEOUT_Q \cup {a}}
      /\ a \in k'.ON_TIMEOUT_Q => b
  <2>1. CASE b
    <3>1. k' = time_delay_internal(w, a, n)
      BY <1>2, <2>1
    <3>2. /\ Consistent(time_delay_internal(w, a, n))
          /\ Joined(k, time_delay_internal(w, a, n), a, s, st, q)
          /\ time_delay_internal(w, a, n).ON_TIMEOUT_Q = k.ON_TIMEOUT_Q \cup {a}
      BY <1>3, <1>4, <1>5, <1>6, TimedBlockWait
    <3> QED
      BY <2>1, <3>1, <3>2
  <2>2. CASE ~b
    <3> DEFINE v == UnlinkReady(w, a)
    <3>1. KInv(v, {}) /\ WaitInv(v) /\ Joined(k, v, a, s, st, q)
          /\ v.ON_TIMEOUT_Q = k.ON_TIMEOUT_Q
      BY <1>3, <1>4, <1>5, <1>6, BlockWait
    <3>2. k' = Dispatch(v)
      BY <1>2, <2>2
    <3> HIDE DEF v
    <3>3. Consistent(k') /\ OnlySwitched(v, k')
      BY <3>1, <3>2, DispatchWait
    <3>4. Joined(k, k', a, s, st, q) /\ k'.ON_TIMEOUT_Q = k.ON_TIMEOUT_Q
      BY <3>1, <3>3 DEF Joined, OnlySwitched
    <3>5. a \notin k.ON_TIMEOUT_Q
      BY <1>4 DEF IsReady
    <3> QED
      BY <3>3, <3>4, <3>5
  <2> QED
    BY <1>3, <2>1, <2>2
<1>8. /\ k'.TD_STATE[a] = "LWSEM_BLOCKED" /\ k'.INFO[a] = s
      /\ \A t \in Task \ {a} : k'.TD_STATE[t] = k.TD_STATE[t] /\ k'.INFO[t] = k.INFO[t]
      /\ \A r \in Sem \ {s} : k'.QUEUE[r] = k.QUEUE[r]
      /\ \A t \in Task \ {a} : t \in k'.ON_TIMEOUT_Q <=> t \in k.ON_TIMEOUT_Q
  BY <1>4, <1>7 DEF Joined, st, Sem
<1>9. /\ call' \in [Task -> Calls] /\ call'[a].at = "blocked" /\ call'[a].sem = s
      /\ call'[a].timed = b
      /\ \A t \in Task \ {a} : call'[t] = call[t]
  BY <1>1, <1>3, Facts DEF Calls, b
<1>10. WaitInv(k') /\ k' \in Kernel
  BY <1>7 DEF Consistent, KInv
<1>11. TypeOK'
  BY <1>1, <1>9, <1>10 DEF Inv, TypeOK
<1>12. CallsOK'
  <2>1. CallOK(a)'
    BY <1>3, <1>7, <1>8, <1>9 DEF CallOK
  <2>2. ASSUME NEW t \in Task \ {a}
        PROVE  CallOK(t)'
    BY <1>1, <1>8, <1>9 DEF Inv, CallsOK, CallOK
  <2> QED
    BY <2>1, <2>2 DEF CallsOK
<1>13. CreatesOK'
  BY <1>1, <1>9 DEF Inv, CreatesOK
<1>14. TokensConserved'
  <2>1. \A r \in Sem : Holders(call', k'.INFO, r) = Holders(call, k.INFO, r)
    BY <1>1, <1>8, <1>9, Facts DEF Holders
  <2> QED
    BY <1>1, <1>4, <1>10, <2>1, TokensIs DEF Inv, Tokens
<1>15. NoLostWakeup'
  <2>1. ASSUME NEW r \in Sem, VALUE[r] > 0
        PROVE  k'.QUEUE[r] = <<>>
    <3>1. VALUE[r] \in Int
      BY Facts
    <3>2. r # s
      BY <2>1, <3>1
    <3> QED
      BY <1>8, <2>1, <3>2 DEF Inv, NoLostWakeup
  <2> QED
    BY <1>1, <2>1 DEF NoLostWakeup
<1> QED
  BY <1>7, <1>11, <1>12, <1>13, <1>14, <1>15 DEF Inv

\* The active task returns from a call for s that changed at most VALUE and the count of s.
Returned(a, s) ==
    /\ call[a].at \in {"wait", "poll", "post", "blocked"} /\ call[a].sem = s
    /\ call' = [call EXCEPT ![a] = NoCall]
    /\ k' = k /\ VALID' = VALID /\ LWSEM' = LWSEM /\ created' = created
    /\ VALUE' \in [Sem -> Int] /\ credit' \in [Sem -> Int]
    /\ \A r \in Sem \ {s} : VALUE'[r] = VALUE[r] /\ credit'[r] = credit[r]

\* What follows for the calls: nobody was creating s.
LEMMA ReturnedCalls ==
    ASSUME Inv, NEW a \in Task, a = k.ACTIVE_PTR, NEW s \in Sem, Returned(a, s)
    PROVE  /\ TypeOK' /\ CallsOK' /\ CreatesOK' /\ Consistent(k') /\ WaitInv(k')
           /\ call'[a].at = "none" /\ \A t \in Task \ {a} : call'[t] = call[t]
<1>1. /\ call' \in [Task -> Calls] /\ call'[a] = NoCall
      /\ \A t \in Task \ {a} : call'[t] = call[t]
  BY Facts, CallTypes DEF Returned
<1>2. k' = k /\ VALID' = VALID /\ LWSEM' = LWSEM /\ created' = created
  BY DEF Returned
<1>3. Consistent(k') /\ WaitInv(k') /\ \A t \in Task \ {a} : CallOK(t)'
  BY <1>1, <1>2, CallStep
<1>4. TypeOK'
  BY <1>1, <1>2 DEF Inv, TypeOK, Returned
<1>5. CallOK(a)'
  BY <1>1, <1>2, CallTypes, Facts DEF CallOK
<1>6. CallsOK'
  BY <1>3, <1>5 DEF CallsOK
<1>7. CreatesOK'
  <2> SUFFICES ASSUME NEW t \in Task, call'[t].at \in {"create", "create_hidden"}
               PROVE  /\ ~VALID[call'[t].sem] /\ credit'[call'[t].sem] = VALUE'[call'[t].sem]
                      /\ \A u \in Task \ {t} : call'[u].sem # call'[t].sem
    BY <1>2 DEF CreatesOK
  <2>1. t # a /\ call'[t] = call[t] /\ call[t].sem \in Sem
    BY <1>1, CallTypes DEF Inv, CallsOK, CallOK
  <2>2. /\ ~VALID[call[t].sem] /\ credit[call[t].sem] = VALUE[call[t].sem]
        /\ \A u \in Task \ {t} : call[u].sem # call[t].sem
    BY <2>1 DEF Inv, CreatesOK
  <2>3. call[t].sem # s /\ call'[a].sem # call[t].sem
    BY <1>1, <2>1, <2>2, CallTypes, Facts DEF Returned
  <2> QED
    BY <1>1, <2>1, <2>2, <2>3 DEF Returned
<1> QED
  BY <1>1, <1>3, <1>4, <1>6, <1>7, CallTypes

\* _lwsem_wait and _lwsem_poll, when they do not block.
LEMMA TakeInv ==
    ASSUME Inv, NEW a \in Task, a = k.ACTIVE_PTR, NEW s \in Sem,
           \/ lwsem_wait(s) /\ ~(VALUE[s] <= 0)
           \/ lwsem_poll(s)
    PROVE  Inv'
<1>1. VALUE \in [Sem -> Int] /\ credit \in [Sem -> Int]
  BY Facts
<1>2. Returned(a, s) /\ call[a].at # "blocked"
  <2>1. CASE lwsem_wait(s) /\ ~(VALUE[s] <= 0)
    BY <1>1, <2>1 DEF lwsem_wait, GoOn, WaitResult, Leave, Returned
  <2>2. CASE lwsem_poll(s)
    BY <1>1, <2>2 DEF lwsem_poll, GoOn, WaitResult, Leave, Returned
  <2> QED
    BY <2>1, <2>2
<1>3. /\ VALUE'[s] <= VALUE[s]
      /\ VALID[s] => credit'[s] - VALUE'[s] = credit[s] - VALUE[s]
  <2>1. CASE lwsem_wait(s) /\ ~(VALUE[s] <= 0)
    BY <1>1, <2>1 DEF lwsem_wait, WaitResult
  <2>2. CASE lwsem_poll(s)
    BY <1>1, <2>2 DEF lwsem_poll, WaitResult
  <2> QED
    BY <2>1, <2>2
<1>4. /\ TypeOK' /\ CallsOK' /\ CreatesOK' /\ Consistent(k') /\ WaitInv(k')
      /\ call'[a].at = "none" /\ \A t \in Task \ {a} : call'[t] = call[t]
  BY <1>2, ReturnedCalls
<1>5. k' = k /\ VALID' = VALID /\ VALUE' \in [Sem -> Int] /\ credit' \in [Sem -> Int]
      /\ \A r \in Sem \ {s} : VALUE'[r] = VALUE[r] /\ credit'[r] = credit[r]
  BY <1>2 DEF Returned
<1>6. TokensConserved'
  <2>1. \A r \in Sem : Holders(call', k.INFO, r) = Holders(call, k.INFO, r)
    <3>1. call'[a].at # "blocked"
      BY <1>4
    <3> QED
      BY <1>2, <1>4, <3>1, HoldersCall
  <2>2. Tokens(call, k, VALID, VALUE, credit)
    BY <1>4, <1>5, TokensIs DEF Inv
  <2>3. ASSUME NEW r \in Sem, VALID[r]
        PROVE  credit'[r] = VALUE'[r] + Cardinality(Holders(call, k.INFO, r))
    <3>1. /\ credit[r] = VALUE[r] + Cardinality(Holders(call, k.INFO, r))
          /\ Cardinality(Holders(call, k.INFO, r)) \in Nat
      BY <2>2, <2>3, HoldersCount DEF Tokens
    <3>2. credit'[r] - VALUE'[r] = credit[r] - VALUE[r]
      BY <1>1, <1>3, <1>5, <2>3
    <3> QED
      BY <1>1, <1>5, <3>1, <3>2
  <2> QED
    BY <1>4, <1>5, <2>1, <2>3, TokensIs DEF Tokens
<1>7. NoLostWakeup'
  <2>1. \A r \in Sem : VALUE'[r] > 0 => VALUE[r] > 0
    BY <1>1, <1>3, <1>5
  <2> QED
    BY <1>5, <2>1 DEF Inv, NoLostWakeup
<1> QED
  BY <1>4, <1>6, <1>7 DEF Inv

\* A wait that blocked returns: MQX_OK exactly if a post gave it the semaphore.
LEMMA WaitReturnInv ==
    ASSUME Inv, NEW a \in Task, a = k.ACTIVE_PTR, NEW s \in Sem, WaitReturn(s)
    PROVE  Inv'
<1> DEFINE ok == VALID[s] /\ (call[a].timed => k.INFO[a] = NULL)
<1>1. /\ call[a].at = "blocked" /\ call[a].sem = s
      /\ credit' = [credit EXCEPT ![s] = IF ok THEN @ - 1 ELSE @]
      /\ call' = [call EXCEPT ![a] = NoCall]
      /\ UNCHANGED <<k, VALID, VALUE, LWSEM, created>>
  BY DEF WaitReturn, GoOn, WaitResult, Leave
<1>2. VALUE \in [Sem -> Int] /\ credit \in [Sem -> Int] /\ s # NULL
  BY Facts
<1>3. VALID[s] => (ok <=> k.INFO[a] = NULL)
  <2>1. k.INFO[a] \in {NULL, s} /\ (k.INFO[a] = s /\ VALID[s] => call[a].timed)
    <3>1. CallOK(a) /\ k.TD_STATE[a] = "READY"
      BY Facts DEF Inv, CallsOK
    <3> QED
      BY <1>1, <3>1 DEF CallOK
  <2> QED
    BY <1>2, <2>1
<1> HIDE DEF ok
<1>4. Returned(a, s)
  BY <1>1, <1>2 DEF Returned
<1>5. /\ TypeOK' /\ CallsOK' /\ CreatesOK' /\ Consistent(k') /\ WaitInv(k')
      /\ call'[a].at = "none" /\ \A t \in Task \ {a} : call'[t] = call[t]
  BY <1>4, ReturnedCalls
<1>6. TokensConserved'
  <2> DEFINE H(r) == Holders(call, k.INFO, r)
             G(r) == Holders(call', k.INFO, r)
  <2>1. Tokens(call, k, VALID, VALUE, credit)
    BY <1>1, <1>5, TokensIs DEF Inv
  <2>2. \A r \in Sem \ {s} : G(r) = H(r)
    BY <1>1, <1>5 DEF Holders
  <2>3. G(s) = H(s) \ {a} /\ a \notin G(s) /\ (a \in H(s) <=> k.INFO[a] = NULL)
    BY <1>1, <1>5 DEF Holders
  <2>4. Cardinality(H(s)) = Cardinality(G(s)) + (IF k.INFO[a] = NULL THEN 1 ELSE 0)
    <3>1. CASE k.INFO[a] = NULL
      <4>1. H(s) = G(s) \cup {a}
        BY <2>3, <3>1
      <4>2. Cardinality(G(s) \cup {a}) = Cardinality(G(s)) + 1
        BY <2>3, HoldersCount
      <4> QED
        BY <3>1, <4>1, <4>2
    <3>2. CASE k.INFO[a] # NULL
      <4>1. H(s) = G(s)
        BY <2>3, <3>2
      <4>2. Cardinality(G(s)) \in Nat
        BY HoldersCount
      <4> QED
        BY <3>2, <4>1, <4>2
    <3> QED
      BY <3>1, <3>2
  <2>5. ASSUME NEW r \in Sem, VALID[r]
        PROVE  credit'[r] = VALUE[r] + Cardinality(G(r))
    <3>1. /\ credit[r] = VALUE[r] + Cardinality(H(r))
          /\ Cardinality(H(r)) \in Nat /\ Cardinality(G(r)) \in Nat
      BY <2>1, <2>5, HoldersCount DEF Tokens
    <3> HIDE DEF H, G
    <3>2. CASE r = s
      BY <1>1, <1>2, <1>3, <2>4, <2>5, <3>1, <3>2
    <3>3. CASE r # s
      BY <1>1, <1>2, <2>2, <3>1, <3>3
    <3> QED
      BY <3>2, <3>3
  <2> QED
    BY <1>1, <1>5, <2>5, TokensIs DEF Tokens
<1>7. NoLostWakeup'
  BY <1>1 DEF Inv, NoLostWakeup
<1> QED
  BY <1>5, <1>6, <1>7 DEF Inv

\* What a post leaves of the calls: its own has ended, if a task made it.
Posted(a, s) ==
    \/ /\ call' = call /\ VALID[s]
    \/ /\ call[a].at = "post" /\ call[a].sem = s
       /\ call' = [call EXCEPT ![a] = NoCall]

\* What follows from that: nobody blocked has left, and s is not being created.
LEMMA PostedCalls ==
    ASSUME Inv, NEW a \in Task, a = k.ACTIVE_PTR, NEW s \in Sem, Posted(a, s)
    PROVE  /\ call' \in [Task -> Calls]
           /\ \A t \in Task : \/ call'[t] = call[t]
                              \/ /\ t = a /\ call[t].at # "blocked" /\ call'[t] = NoCall
           /\ \A t \in Task : call[t].at \in {"create", "create_hidden"} => call[t].sem # s
<1>1. CASE call' = call /\ VALID[s]
  BY <1>1, Facts DEF Inv, CreatesOK
<1>2. CASE /\ call[a].at = "post" /\ call[a].sem = s
           /\ call' = [call EXCEPT ![a] = NoCall]
  <2>1. /\ call' \in [Task -> Calls] /\ call'[a] = NoCall /\ call[a].at # "blocked"
        /\ \A t \in Task \ {a} : call'[t] = call[t]
    BY <1>2, Facts, CallTypes
  <2>2. \A t \in Task : call[t].at \in {"create", "create_hidden"} => call[t].sem # s
    BY <1>2 DEF Inv, CreatesOK
  <2> QED
    BY <2>1, <2>2
<1> QED
  BY <1>1, <1>2 DEF Posted

\* The calls and the semaphores under creation after a post.
LEMMA PostedRest ==
    ASSUME Inv, NEW a \in Task, a = k.ACTIVE_PTR, NEW s \in Sem, Posted(a, s),
           VALID' = VALID, LWSEM' = LWSEM, created' = created, k' \in Kernel,
           VALUE' \in [Sem -> Int], credit' \in [Sem -> Int],
           \A r \in Sem \ {s} : VALUE'[r] = VALUE[r] /\ credit'[r] = credit[r]
    PROVE  TypeOK' /\ CreatesOK'
<1>1. /\ call' \in [Task -> Calls]
      /\ \A t \in Task : call'[t] = call[t] \/ call'[t] = NoCall
      /\ \A t \in Task : call[t].at \in {"create", "create_hidden"} => call[t].sem # s
  BY PostedCalls
<1>2. TypeOK'
  BY <1>1 DEF Inv, TypeOK
<1>3. CreatesOK'
  <2> SUFFICES ASSUME NEW t \in Task, call'[t].at \in {"create", "create_hidden"}
               PROVE  /\ ~VALID[call'[t].sem] /\ credit'[call'[t].sem] = VALUE'[call'[t].sem]
                      /\ \A u \in Task \ {t} : call'[u].sem # call'[t].sem
    BY DEF CreatesOK
  <2>1. call'[t] = call[t]
    BY <1>1, CallTypes
  <2>2. call[t].sem \in Sem /\ call[t].sem # s /\ call[t].sem # NULL
    BY <1>1, <2>1, Facts DEF Inv, CallsOK, CallOK
  <2>3. /\ ~VALID[call[t].sem] /\ credit[call[t].sem] = VALUE[call[t].sem]
        /\ \A u \in Task \ {t} : call[u].sem # call[t].sem
    BY <2>1 DEF Inv, CreatesOK
  <2> QED
    BY <1>1, <2>1, <2>2, <2>3, CallTypes
<1> QED
  BY <1>2, <1>3

\* A post that finds nobody waiting: VALUE goes up.
LEMMA PostValueInv ==
    ASSUME Inv, NEW a \in Task, a = k.ACTIVE_PTR, NEW s \in Sem, Posted(a, s),
           NEW b \in BOOLEAN, Post(s, b), ~(VALUE[s] >= 0 /\ k.QUEUE[s] # <<>>)
    PROVE  Inv'
<1>1. /\ VALUE' = [VALUE EXCEPT ![s] = @ + 1] /\ credit' = [credit EXCEPT ![s] = @ + 1]
      /\ k' = k /\ VALID' = VALID /\ LWSEM' = LWSEM /\ created' = created
  BY DEF Post
<1>2. VALUE \in [Sem -> Int] /\ credit \in [Sem -> Int] /\ k \in Kernel
  BY Facts
<1>3. /\ VALUE' \in [Sem -> Int] /\ credit' \in [Sem -> Int]
      /\ \A r \in Sem \ {s} : VALUE'[r] = VALUE[r] /\ credit'[r] = credit[r]
      /\ VALUE'[s] = VALUE[s] + 1 /\ credit'[s] = credit[s] + 1
  BY <1>1, <1>2
<1>4. TypeOK' /\ CreatesOK'
  BY <1>1, <1>2, <1>3, PostedRest
<1>5. /\ call' \in [Task -> Calls]
      /\ \A t \in Task : \/ call'[t] = call[t]
                         \/ /\ t = a /\ call[t].at # "blocked" /\ call'[t] = NoCall
  BY PostedCalls
<1>6. Consistent(k') /\ WaitInv(k') /\ \A t \in Task \ {a} : CallOK(t)'
  BY <1>1, <1>5, CallStep
<1>7. CallsOK'
  <2>3. CallOK(a)'
    <3>1. CASE call'[a] = call[a]
      BY <1>1, <3>1 DEF Inv, CallsOK, CallOK
    <3>2. CASE call'[a] = NoCall
      BY <1>1, <3>2, CallTypes, Facts DEF CallOK
    <3> QED
      BY <1>5, <3>1, <3>2
  <2> QED
    BY <1>6, <2>3 DEF CallsOK
<1>8. TokensConserved'
  <2>1. \A r \in Sem : Holders(call', k.INFO, r) = Holders(call, k.INFO, r)
    BY <1>5, CallTypes DEF Holders
  <2>2. Tokens(call, k, VALID, VALUE, credit)
    BY <1>1, <1>6, TokensIs DEF Inv
  <2>3. ASSUME NEW r \in Sem, VALID[r]
        PROVE  credit'[r] = VALUE'[r] + Cardinality(Holders(call, k.INFO, r))
    <3>1. /\ credit[r] = VALUE[r] + Cardinality(Holders(call, k.INFO, r))
          /\ Cardinality(Holders(call, k.INFO, r)) \in Nat
      BY <2>2, <2>3, HoldersCount DEF Tokens
    <3>2. CASE r = s
      BY <1>2, <1>3, <3>1, <3>2
    <3>3. CASE r # s
      BY <1>3, <3>1, <3>3
    <3> QED
      BY <3>2, <3>3
  <2> QED
    BY <1>1, <1>6, <2>1, <2>3, TokensIs DEF Tokens
<1>9. NoLostWakeup'
  <2>1. ASSUME NEW r \in Sem, VALUE'[r] > 0
        PROVE  k.QUEUE[r] = <<>>
    <3>1. CASE r = s
      BY <1>2, <1>3, <2>1, <3>1
    <3>2. CASE r # s
      BY <1>3, <2>1, <3>2 DEF Inv, NoLostWakeup
    <3> QED
      BY <3>1, <3>2
  <2> QED
    BY <1>1, <2>1 DEF NoLostWakeup
<1> QED
  BY <1>4, <1>6, <1>7, <1>8, <1>9 DEF Inv

\* A post that finds a waiter: the semaphore goes to the first one, past VALUE.
LEMMA PostHandOverInv ==
    ASSUME Inv, NEW a \in Task, a = k.ACTIVE_PTR, NEW s \in Sem, Posted(a, s),
           NEW b \in BOOLEAN, Post(s, b), VALUE[s] >= 0, k.QUEUE[s] # <<>>
    PROVE  Inv'
<1> DEFINE t == Head(k.QUEUE[s])
           v == HandOver(s)
<1>1. /\ VALUE' = VALUE /\ credit' = [credit EXCEPT ![s] = @ + 1]
      /\ k' = (IF b THEN IsrReturn(v) ELSE CHECK_RUN_SCHEDULER(v))
      /\ VALID' = VALID /\ LWSEM' = LWSEM /\ created' = created
  BY DEF Post
<1>2. /\ VALUE \in [Sem -> Int] /\ credit \in [Sem -> Int] /\ k \in Kernel /\ Unscheduled(k)
      /\ s \in Queue /\ s # NULL /\ NULL \in Info /\ WaitInv(k)
      /\ k.INFO \in [Task -> Info] /\ k.QUEUE \in [Queue -> Seq(Task)]
  BY Facts DEF Info
<1>3. v = HandedOver(k, s, NULL)
  BY DEF HandOver, HandedOver
<1> HIDE DEF v
<1>4. /\ t \in Task /\ t \in Elems(k.QUEUE[s])
      /\ Unscheduled(v) /\ Readied(k, v, {t})
      /\ v.QUEUE = [k.QUEUE EXCEPT ![s] = Tail(@)]
      /\ v.INFO = [k.INFO EXCEPT ![t] = NULL]
  <2>1. Unscheduled(v) /\ FirstReadied(k, v, s, NULL)
    BY <1>2, <1>3, HandOverWait
  <2> QED
    BY <2>1 DEF FirstReadied
<1> HIDE DEF t
<1>5. Consistent(k') /\ OnlySwitched(v, k')
  BY <1>1, <1>4, CheckRunWait, IsrReturnWait
<1>6. /\ k' \in Kernel /\ WaitInv(k')
      /\ k'.TD_STATE[t] = "READY" /\ t \notin k'.ON_TIMEOUT_Q /\ k'.INFO[t] = NULL
      /\ \A u \in Task \ {t} : /\ k'.TD_STATE[u] = k.TD_STATE[u]
                               /\ u \in k'.ON_TIMEOUT_Q <=> u \in k.ON_TIMEOUT_Q
                               /\ k'.INFO[u] = k.INFO[u]
      /\ \A r \in Sem \ {s} : k'.QUEUE[r] = k.QUEUE[r]
  <2>1. k' \in Kernel /\ WaitInv(k')
    BY <1>5 DEF Consistent, KInv
  <2>2. /\ k'.TD_STATE = [u \in Task |-> IF u \in {t} THEN "READY" ELSE k.TD_STATE[u]]
        /\ k'.ON_TIMEOUT_Q = k.ON_TIMEOUT_Q \ {t}
        /\ k'.INFO = [k.INFO EXCEPT ![t] = NULL]
        /\ k'.QUEUE = [k.QUEUE EXCEPT ![s] = Tail(@)]
    BY <1>4, <1>5 DEF Readied, OnlySwitched
  <2> QED
    BY <1>2, <1>4, <2>1, <2>2 DEF Sem
<1>7. /\ t # a /\ call[t].at = "blocked" /\ call[t].sem = s /\ k.INFO[t] = s
  BY <1>4, WaitersBlocked
<1>8. /\ call' \in [Task -> Calls]
      /\ \A u \in Task : \/ call'[u] = call[u]
                         \/ /\ u = a /\ call[u].at # "blocked" /\ call'[u] = NoCall
  BY PostedCalls
<1>9. TypeOK' /\ CreatesOK'
  BY <1>1, <1>2, <1>6, PostedRest
<1>10. CallsOK'
  <2> SUFFICES ASSUME NEW u \in Task
               PROVE  CallOK(u)'
    BY DEF CallsOK
  <2>1. CallOK(u)
    BY DEF Inv, CallsOK
  <2>2. CASE u = t
    BY <1>2, <1>6, <1>7, <1>8, <2>1, <2>2 DEF CallOK
  <2>3. CASE u # t /\ call'[u] = call[u]
    BY <1>1, <1>6, <2>1, <2>3 DEF CallOK
  <2>4. CASE u # t /\ u = a /\ call'[u] = NoCall
    BY <1>1, <1>6, <2>4, CallTypes, Facts DEF CallOK
  <2> QED
    BY <1>8, <2>2, <2>3, <2>4
<1>11. TokensConserved'
  <2> DEFINE H(r) == Holders(call, k.INFO, r)
             G(r) == Holders(call', k'.INFO, r)
  <2>1. Tokens(call, k, VALID, VALUE, credit)
    BY <1>2, TokensIs DEF Inv
  <2>2. \A r \in Sem \ {s} : G(r) = H(r)
    BY <1>6, <1>7, <1>8, CallTypes DEF Holders
  <2>3. G(s) = H(s) \cup {t} /\ t \notin H(s)
    <3>1. t \notin H(s) /\ t \in G(s)
      BY <1>2, <1>4, <1>6, <1>7, <1>8 DEF Holders
    <3>2. \A u \in Task \ {t} : u \in G(s) <=> u \in H(s)
      BY <1>6, <1>8, CallTypes DEF Holders
    <3>3. G(s) \subseteq Task /\ H(s) \subseteq Task
      BY DEF Holders
    <3> HIDE DEF G, H
    <3> QED
      BY <3>1, <3>2, <3>3
  <2>4. Cardinality(G(s)) = Cardinality(H(s)) + 1
    <3>1. Cardinality(H(s) \cup {t}) = Cardinality(H(s)) + 1
      BY <1>4, <2>3, HoldersCount
    <3> QED
      BY <2>3, <3>1
  <2>5. ASSUME NEW r \in Sem, VALID[r]
        PROVE  credit'[r] = VALUE[r] + Cardinality(G(r))
    <3>1. /\ credit[r] = VALUE[r] + Cardinality(H(r))
          /\ Cardinality(H(r)) \in Nat
      BY <2>1, <2>5, HoldersCount DEF Tokens
    <3> HIDE DEF H, G
    <3>2. CASE r = s
      BY <1>1, <1>2, <2>4, <3>1, <3>2
    <3>3. CASE r # s
      BY <1>1, <1>2, <2>2, <3>1, <3>3
    <3> QED
      BY <3>2, <3>3
  <2> QED
    BY <1>1, <1>6, <2>5, TokensIs DEF Tokens
<1>12. NoLostWakeup'
  <2>1. ASSUME NEW r \in Sem, VALUE[r] > 0
        PROVE  k'.QUEUE[r] = <<>>
    <3>1. r # s /\ k.QUEUE[r] = <<>>
      BY <2>1 DEF Inv, NoLostWakeup
    <3> QED
      BY <1>6, <3>1
  <2> QED
    BY <1>1, <2>1 DEF NoLostWakeup
<1> QED
  BY <1>5, <1>9, <1>10, <1>11, <1>12 DEF Inv

\* _lwsem_post by the active task and by an interrupt handler.
LEMMA PostInv ==
    ASSUME Inv, NEW a \in Task, a = k.ACTIVE_PTR, NEW s \in Sem,
           lwsem_post(s) \/ IsrPost(s)
    PROVE  Inv'
<1>1. Posted(a, s)
  BY DEF lwsem_post, IsrPost, GoOn, Leave, Posted
<1>2. PICK b \in BOOLEAN : Post(s, b)
  BY DEF lwsem_post, IsrPost
<1> QED
  BY <1>1, <1>2, PostValueInv, PostHandOverInv

(***************************************************************************)
(* The theorems.                                                            *)
(***************************************************************************)
\* No semaphore exists and no task waits when the application starts.
LEMMA InitInv == Init => Inv
<1> SUFFICES ASSUME Init
             PROVE  Inv
  OBVIOUS
<1>1. /\ k = Boot /\ call = [t \in Task |-> NoCall]
      /\ VALID = [s \in Sem |-> FALSE] /\ VALUE = [s \in Sem |-> 0] /\ LWSEM = {}
      /\ credit = [s \in Sem |-> 0] /\ created = [s \in Sem |-> 0]
  BY DEF Init
<1>2. /\ Consistent(k) /\ k.TD_STATE = [t \in Task |-> "READY"]
  BY <1>1, BootWait
<1>3. TypeOK
  BY <1>1, <1>2, CallTypes DEF TypeOK, Consistent, KInv
<1>4. CallsOK
  BY <1>1, <1>2, CallTypes DEF CallsOK, CallOK
<1>5. CreatesOK
  BY <1>1, CallTypes DEF CreatesOK
<1>6. TokensConserved /\ NoLostWakeup
  BY <1>1 DEF TokensConserved, NoLostWakeup
<1> QED
  BY <1>2, <1>3, <1>4, <1>5, <1>6 DEF Inv

\* Every step keeps the invariant.
LEMMA NextInv == Inv /\ [Next]_vars => Inv'
<1> SUFFICES ASSUME Inv, [Next]_vars
             PROVE  Inv'
  OBVIOUS
<1>1. PICK a \in Task : a = k.ACTIVE_PTR
  BY Facts
<1>2. ASSUME NEW s \in Sem, NEW v \in InitialNumbers,
             CreateInit(s, v, "create") \/ CreateInit(s, v, "create_hidden")
      PROVE  Inv'
  BY <1>1, <1>2, CreateInitInv, LwsemAssumption
<1>3. ASSUME NEW s \in Sem, lwsem_create(s) \/ lwsem_create_hidden(s)
      PROVE  Inv'
  BY <1>1, <1>3, CreateInv
<1>4. ASSUME NEW s \in Sem, lwsem_destroy(s)
      PROVE  Inv'
  BY <1>4, DestroyInv
<1>5. ASSUME NEW s \in Sem, NEW b \in BOOLEAN, NEW n \in 0 .. MaxDelay, WaitEnter(s, b, n)
      PROVE  Inv'
  <2>1. /\ VALID[s] /\ Enter("wait", s, b, n) /\ n \in Int
        /\ UNCHANGED <<k, VALID, VALUE, LWSEM, credit, created>>
    BY <1>5, LwsemAssumption DEF WaitEnter
  <2> QED
    BY <1>1, <2>1, EnterInv
<1>6. ASSUME NEW s \in Sem, lwsem_wait(s) \/ lwsem_poll(s)
      PROVE  Inv'
  BY <1>1, <1>6, WaitBlockInv, TakeInv
<1>7. ASSUME NEW s \in Sem, WaitReturn(s)
      PROVE  Inv'
  BY <1>1, <1>7, WaitReturnInv
<1>8. ASSUME NEW s \in Sem, PollEnter(s) \/ PostEnter(s)
      PROVE  Inv'
  <2>1. FALSE \in BOOLEAN /\ 0 \in Int
    OBVIOUS
  <2>2. CASE PollEnter(s)
    <3>1. /\ VALID[s] /\ Enter("poll", s, FALSE, 0)
          /\ UNCHANGED <<k, VALID, VALUE, LWSEM, credit, created>>
      BY <2>2 DEF PollEnter
    <3> QED
      BY <1>1, <2>1, <3>1, EnterInv
  <2>3. CASE PostEnter(s)
    <3>1. /\ VALID[s] /\ Enter("post", s, FALSE, 0)
          /\ UNCHANGED <<k, VALID, VALUE, LWSEM, credit, created>>
      BY <2>3 DEF PostEnter
    <3> QED
      BY <1>1, <2>1, <3>1, EnterInv
  <2> QED
    BY <1>8, <2>2, <2>3
<1>9. ASSUME NEW s \in Sem, lwsem_post(s) \/ IsrPost(s)
      PROVE  Inv'
  BY <1>1, <1>9, PostInv
<1>10. ASSUME NEW n \in 1 .. MaxDelay, time_delay_ticks(n)
       PROVE  Inv'
  BY <1>1, <1>10, SleepInv, LwsemAssumption
<1>11. CASE Tick
  BY <1>11, TickStepInv
<1>12. CASE UNCHANGED vars
  <2>1. TypeOK' /\ Consistent(k')
    BY <1>12 DEF Inv, TypeOK, vars
  <2>2. CallsOK' /\ CreatesOK'
    BY <1>12 DEF Inv, CallsOK, CallOK, CreatesOK, vars
  <2>3. TokensConserved' /\ NoLostWakeup'
    BY <1>12 DEF Inv, TokensConserved, Granted, NoLostWakeup, vars
  <2> QED
    BY <2>1, <2>2, <2>3 DEF Inv
<1>13. 0 \in 0 .. MaxDelay
  BY LwsemAssumption
<1> QED
  BY <1>2, <1>3, <1>4, <1>5, <1>6, <1>7, <1>8, <1>9, <1>10, <1>11, <1>12, <1>13 DEF Next

\* The inductive invariant of lwsem.c holds in every reachable state: what the calls, the
\* task descriptors, the semaphores and the kernel's queues say fits together.
THEOREM Invariance == Spec => []Inv
BY InitInv, NextInv, PTL DEF Spec

\* Whatever semaphore calls, timeouts and interrupts meet, the ready queues, the timeout
\* queue, the wait queues and the running task fit together.
THEOREM KernelAlwaysConsistent == Spec => []KernelConsistent
<1>1. Inv => KernelConsistent
  BY ConsistentKernel DEF Inv, KernelConsistent, SchedulerConsistent, WaitersExact
<1> QED
  BY <1>1, Invariance, PTL

\* No token is lost or made up by a post, a wait, a poll, a timeout or a destroy.
THEOREM TokensAlwaysConserved == Spec => []TokensConserved
<1>1. Inv => TokensConserved
  BY DEF Inv
<1> QED
  BY <1>1, Invariance, PTL

\* No task ever waits for a semaphore that is available.
THEOREM WakeupNeverLost == Spec => []NoLostWakeup
<1>1. Inv => NoLostWakeup
  BY DEF Inv
<1> QED
  BY <1>1, Invariance, PTL
=============================================================================
