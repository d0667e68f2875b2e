---------------------------- MODULE ContextProofs ----------------------------
(***************************************************************************)
(* Theorems about ContextStorage, for any number of executions, frames,    *)
(* scopes and requests, and with RSHUTDOWN unwinding at will.              *)
(***************************************************************************)
EXTENDS ContextStorage, FilterProofs, FiniteSetTheorems, TLAPS

\* The stack holds no entry for id.
Apart(stack, id) == \A i \in 1 .. Len(stack) : stack[i] # id

\* The root context is stored, and no id that user code can get hold of is its.
RootApart ==
  request_id # 0 =>
    /\ request_id \in context_storage
    /\ \A k \in 1 .. Len(scopes) : scopes[k].id # request_id
    /\ Apart(main_stack, request_id)
    /\ \A e \in DOMAIN fork_stacks : Apart(fork_stacks[e], request_id)

IndInv == IdTypes /\ StacksAgree /\ RootApart

-----------------------------------------------------------------------------
\* What is active is one of the stacks, whose entries are known and not the root.
LEMMA ActiveKnown ==
  ASSUME IdTypes
  PROVE  /\ Known(Active, Len(ctx_of))
         /\ RootApart /\ request_id # 0 => Apart(Active, request_id)
BY DEF IdTypes, Active, StackOf, RootApart

\* with_active_stack writes the active stack and no other.
LEMMA SetActiveWrites ==
  ASSUME IdTypes, NEW stack, SetActive(stack), current_execution' = current_execution
  PROVE  /\ Active' = stack
         /\ main_stack' \in {main_stack, stack}
         /\ DOMAIN fork_stacks' = DOMAIN fork_stacks
         /\ \A e \in DOMAIN fork_stacks : fork_stacks'[e] \in {fork_stacks[e], stack}
BY DEF IdTypes, SetActive, Active, StackOf

\* A larger counter keeps what was known.
LEMMA KnownGrows ==
  ASSUME NEW stack, NEW m \in Nat, NEW n \in Nat, m <= n, Known(stack, m)
  PROVE  Known(stack, n)
BY DEF Known

\* Pushing a known id.
LEMMA KnownAppend ==
  ASSUME NEW stack, NEW n \in Nat, Known(stack, n), NEW id \in 1 .. n
  PROVE  /\ Known(Append(stack, id), n)
         /\ \A r : r # id /\ Apart(stack, r) => Apart(Append(stack, id), r)
BY DEF Known, Apart

\* Popping.
LEMMA KnownPop ==
  ASSUME NEW stack, NEW n \in Nat, Known(stack, n), stack # <<>>
  PROVE  /\ Known(Pop(stack), n)
         /\ \A r : Apart(stack, r) => Apart(Pop(stack), r)
         /\ Last(stack) \in 1 .. n
         /\ \A r : Apart(stack, r) => Last(stack) # r
BY SMTT(30) DEF Known, Apart, Pop, Last

-----------------------------------------------------------------------------
\* attach_context with an id that is known and not the root's keeps the invariant.
LEMMA AttachStep ==
  ASSUME IndInv, NEW id, NEW ctx, AttachId(id, ctx),
         ctx_of' \in Seq(Int), Len(ctx_of) <= Len(ctx_of'),
         id \in 1 .. Len(ctx_of'), id # request_id,
         context_storage \subseteq context_storage'
  PROVE  IndInv'
<1> DEFINE n == Len(ctx_of')
<1>1. n \in Nat /\ Len(ctx_of) \in Nat
  BY DEF IndInv, IdTypes
<1>2. UNCHANGED <<request_id, current_execution>> /\ SetActive(Append(Active, id))
  BY DEF AttachId, requestVars
<1>3. /\ Known(Active, n)
      /\ request_id # 0 => Apart(Active, request_id)
  BY <1>1, ActiveKnown, KnownGrows DEF IndInv
<1>4. /\ Known(Append(Active, id), n)
      /\ request_id # 0 => Apart(Append(Active, id), request_id)
  BY <1>1, <1>3, KnownAppend
<1>5. /\ Active' = Append(Active, id)
      /\ main_stack' \in {main_stack, Append(Active, id)}
      /\ DOMAIN fork_stacks' = DOMAIN fork_stacks
      /\ \A e \in DOMAIN fork_stacks :
           fork_stacks'[e] \in {fork_stacks[e], Append(Active, id)}
  BY <1>2, SetActiveWrites DEF IndInv
<1>6. /\ Known(main_stack', n)
      /\ \A e \in DOMAIN fork_stacks' : Known(fork_stacks'[e], n)
  BY <1>1, <1>4, <1>5, KnownGrows DEF IndInv, IdTypes
<1>7. /\ scopes' \in Seq(ScopeObjects)
      /\ Len(scopes') = Len(scopes) + 1
      /\ \A k \in 1 .. Len(scopes) : scopes'[k] = scopes[k]
      /\ scopes'[Len(scopes) + 1].id = id
  <2>1. NewScope(id) \in ScopeObjects /\ NewScope(id).id = id
    BY <1>1, <1>3 DEF NewScope, ScopeObjects, IndInv, IdTypes, Known
  <2>2. scopes' = Append(scopes, NewScope(id)) /\ scopes \in Seq(ScopeObjects)
    BY DEF AttachId, IndInv, IdTypes
  <2>3. QED
    BY <2>1, <2>2
<1>8. guard_stack' \in Seq(Nat) /\ guard_stack' = Append(Active, id)
  BY <1>1, <1>3 DEF AttachId, IndInv, IdTypes, StacksAgree, Known
<1>9. IdTypes'
  <2>1. \A k \in 1 .. Len(scopes') : scopes'[k].id \in 1 .. n
    <3>1. \A k \in 1 .. Len(scopes) : scopes[k].id \in 1 .. n
      BY <1>1 DEF IndInv, IdTypes, Ids
    <3>2. Len(scopes) \in Nat
      BY DEF IndInv, IdTypes
    <3>3. QED
      BY <1>7, <3>1, <3>2
  <2>2. request_id' \in 0 .. n
    BY <1>1, <1>2 DEF IndInv, IdTypes
  <2>3. current_execution' = Main \/ current_execution' \in DOMAIN fork_stacks'
    BY <1>2, <1>5 DEF IndInv, IdTypes
  <2>4. DOMAIN fork_stacks' \subseteq Executions
    BY <1>5 DEF IndInv, IdTypes
  <2>5. QED
    BY <1>6, <1>7, <1>8, <2>1, <2>2, <2>3, <2>4 DEF IdTypes, Ids
<1>10. RootApart'
  <2>1. SUFFICES ASSUME request_id # 0
                 PROVE  /\ request_id \in context_storage'
                        /\ \A k \in 1 .. Len(scopes') : scopes'[k].id # request_id
                        /\ Apart(main_stack', request_id)
                        /\ \A e \in DOMAIN fork_stacks' : Apart(fork_stacks'[e], request_id)
    BY <1>2 DEF RootApart
  <2>2. Len(scopes) \in Nat
    BY DEF IndInv, IdTypes
  <2>3. \A k \in 1 .. Len(scopes') : scopes'[k].id # request_id
    <3>1. \A k \in 1 .. Len(scopes) : scopes[k].id # request_id
      BY <2>1 DEF IndInv, RootApart
    <3>2. \A k \in 1 .. Len(scopes') : k \in 1 .. Len(scopes) \/ k = Len(scopes) + 1
      BY <1>7, <2>2
    <3>3. QED
      BY <1>7, <3>1, <3>2
  <2>4. QED
    BY <1>4, <1>5, <2>1, <2>3 DEF IndInv, RootApart
<1>11. QED
  BY <1>5, <1>8, <1>9, <1>10 DEF IndInv, StacksAgree

-----------------------------------------------------------------------------
\* Steps that touch neither the stacks nor the ids keep the invariant.
LEMMA FrameStep ==
  ASSUME IndInv, context_storage \subseteq context_storage',
         UNCHANGED <<ctx_of, guard_stack, stackVars, request_id>>,
         scopes' = scopes \/ scopes' = <<>>
  PROVE  IndInv'
<1>1. IdTypes'
  <2>1. /\ scopes' \in Seq(ScopeObjects)
        /\ \A k \in 1 .. Len(scopes') : scopes'[k].id \in Ids
    <3>1. CASE scopes' = scopes
      BY <3>1 DEF IndInv, IdTypes
    <3>2. CASE scopes' = <<>>
      BY <3>2
    <3>3. QED
      BY <3>1, <3>2
  <2>2. Ids' = Ids
    BY DEF Ids
  <2>3. QED
    BY <2>1, <2>2 DEF IndInv, IdTypes, stackVars
<1>2. StacksAgree'
  BY DEF IndInv, StacksAgree, Active, StackOf, stackVars
<1>3. RootApart'
  BY DEF IndInv, RootApart, stackVars
<1>4. QED
  BY <1>1, <1>2, <1>3 DEF IndInv

\* RINIT: the root context gets an id nobody has seen.
LEMMA RootStep ==
  ASSUME IndInv, NEW sampled \in BOOLEAN, RequestInitRoot(sampled)
  PROVE  IndInv'
<1>1. /\ ctx_of \in Seq(Int) /\ Len(ctx_of) \in Nat
      /\ ctx_of' = Append(ctx_of, Len(ctx_of) + 1)
  BY DEF IndInv, IdTypes, RequestInitRoot, NextId
<1>2. ctx_of' \in Seq(Int) /\ Len(ctx_of') = Len(ctx_of) + 1
  BY <1>1
<1>3. UNCHANGED <<guard_stack, stackVars, scopes>> /\ request_id' = Len(ctx_of) + 1
      /\ request_id' \in context_storage'
  BY DEF RequestInitRoot, phpVars, NextId
<1>4. IdTypes'
  <2>1. Known(main_stack, Len(ctx_of'))
    BY <1>1, <1>2, KnownGrows DEF IndInv, IdTypes
  <2>2. \A e \in DOMAIN fork_stacks : Known(fork_stacks[e], Len(ctx_of'))
    BY <1>1, <1>2, KnownGrows DEF IndInv, IdTypes
  <2>3. \A k \in 1 .. Len(scopes) : scopes[k].id \in 1 .. Len(ctx_of')
    BY <1>1, <1>2 DEF IndInv, IdTypes, Ids
  <2>4. QED
    BY <1>1, <1>2, <1>3, <2>1, <2>2, <2>3 DEF IndInv, IdTypes, Ids, stackVars
<1>5. StacksAgree'
  BY <1>3 DEF IndInv, StacksAgree, Active, StackOf, stackVars
<1>6. RootApart'
  <2>1. Apart(main_stack, Len(ctx_of) + 1)
    BY <1>1 DEF IndInv, IdTypes, Known, Apart
  <2>2. \A e \in DOMAIN fork_stacks : Apart(fork_stacks[e], Len(ctx_of) + 1)
    BY <1>1 DEF IndInv, IdTypes, Known, Apart
  <2>3. \A k \in 1 .. Len(scopes) : scopes[k].id # Len(ctx_of) + 1
    BY <1>1 DEF IndInv, IdTypes, Ids
  <2>4. QED
    BY <1>3, <2>1, <2>2, <2>3 DEF RootApart, stackVars
<1>7. QED
  BY <1>4, <1>5, <1>6 DEF IndInv

\* RSHUTDOWN: the root context is found, so everything is cleared.
LEMMA ShutdownStep ==
  ASSUME IndInv, RequestShutdown
  PROVE  IndInv'
<1>1. ~(request_id # 0 /\ ~Stored(request_id))
  BY DEF IndInv, RootApart, Stored
<1>2. /\ request_id' = 0 /\ guard_stack' = <<>> /\ main_stack' = <<>>
      /\ fork_stacks' = [e \in {} |-> <<>>] /\ current_execution' = Main
      /\ scopes' = <<>> /\ ctx_of' = ctx_of
  BY <1>1 DEF RequestShutdown
<1>3. IdTypes'
  BY <1>2 DEF IndInv, IdTypes, Known
<1>4. StacksAgree' /\ RootApart'
  BY <1>2 DEF StacksAgree, Active, StackOf, RootApart
<1>5. QED
  BY <1>3, <1>4 DEF IndInv

\* Storage::attach with an id: it is used again, or replaced by a new one.
LEMMA AgainStep ==
  ASSUME IndInv, NEW id \in Ids, AttachAgain(id)
  PROVE  IndInv'
<1>1. ctx_of \in Seq(Int) /\ Len(ctx_of) \in Nat /\ id \in 1 .. Len(ctx_of)
      /\ ctx_of[id] \in Int /\ request_id \in 0 .. Len(ctx_of)
  BY DEF IndInv, IdTypes, Ids
<1>2. id # request_id
  <2>1. CASE \E k \in 1 .. Len(scopes) : id = scopes[k].id
    BY <1>1, <2>1 DEF IndInv, RootApart
  <2>2. CASE Len(Active) # 0 /\ id = Last(Active)
    <3>1. Known(Active, Len(ctx_of)) /\ Active # <<>>
      BY <2>2, ActiveKnown DEF IndInv
    <3>2. request_id # 0 => Apart(Active, request_id)
      BY ActiveKnown DEF IndInv
    <3>3. QED
      BY <1>1, <2>2, <3>1, <3>2, KnownPop
  <2>3. QED
    BY <2>1, <2>2 DEF AttachAgain, KnownIds
<1>3. CASE Stored(id)
  BY <1>1, <1>2, <1>3, AttachStep DEF AttachAgain
<1>4. CASE ~Stored(id)
  <2>1. /\ ctx_of' = Append(ctx_of, ctx_of[id])
        /\ context_storage \subseteq context_storage'
        /\ AttachId(Len(ctx_of) + 1, ctx_of[id])
    BY <1>4 DEF AttachAgain, NextId
  <2>2. ctx_of' \in Seq(Int) /\ Len(ctx_of') = Len(ctx_of) + 1
    BY <1>1, <2>1
  <2>3. QED
    BY <1>1, <2>1, <2>2, AttachStep
<1>5. QED
  BY <1>3, <1>4

\* Context::activate: a new id.
LEMMA ActivateStep ==
  ASSUME IndInv, NEW ctx \in Contexts, Activate(ctx)
  PROVE  IndInv'
<1>1. ctx_of \in Seq(Int) /\ Len(ctx_of) \in Nat /\ request_id \in 0 .. Len(ctx_of)
  BY DEF IndInv, IdTypes
<1>2. ctx \in Int
  BY <1>1 DEF Contexts, Ids, NoSpan, PassiveSpan, HookSpan
<1>3. /\ ctx_of' = Append(ctx_of, ctx)
      /\ context_storage \subseteq context_storage'
      /\ AttachId(Len(ctx_of) + 1, ctx)
  BY DEF Activate, NextId
<1>4. ctx_of' \in Seq(Int) /\ Len(ctx_of') = Len(ctx_of) + 1
  BY <1>1, <1>2, <1>3
<1>5. QED
  BY <1>1, <1>3, <1>4, AttachStep

\* Scope::detach: both stacks lose their last entry, which is not the root.
LEMMA DetachStep ==
  ASSUME IndInv, NEW k \in 1 .. Len(scopes), Detach(k)
  PROVE  IndInv'
<1> DEFINE n == Len(ctx_of)
           id == scopes[k].id
<1>1. n \in Nat /\ Known(Active, n) /\ guard_stack = Active /\ Active # <<>>
      /\ Last(Active) = id /\ (request_id # 0 => Apart(Active, request_id))
  BY ActiveKnown DEF IndInv, IdTypes, StacksAgree, Detach
<1>2. /\ SetActive(Pop(Active))
      /\ UNCHANGED <<ctx_of, current_execution, request_id>>
      /\ guard_stack' = Pop(Active)
      /\ context_storage' = context_storage \ {id}
      /\ scopes' = [scopes EXCEPT ![k].detached = TRUE]
  BY <1>1 DEF Detach
<1>3. /\ Known(Pop(Active), n)
      /\ request_id # 0 => Apart(Pop(Active), request_id) /\ id # request_id
  BY <1>1, KnownPop
<1>4. /\ Active' = Pop(Active)
      /\ main_stack' \in {main_stack, Pop(Active)}
      /\ DOMAIN fork_stacks' = DOMAIN fork_stacks
      /\ \A e \in DOMAIN fork_stacks : fork_stacks'[e] \in {fork_stacks[e], Pop(Active)}
  BY <1>2, SetActiveWrites DEF IndInv
<1>5. /\ scopes' \in Seq(ScopeObjects)
      /\ Len(scopes') = Len(scopes)
      /\ \A j \in 1 .. Len(scopes) : scopes'[j].id = scopes[j].id
  <2>1. scopes \in Seq(ScopeObjects) /\ scopes[k] \in ScopeObjects
    BY DEF IndInv, IdTypes
  <2>2. [scopes[k] EXCEPT !.detached = TRUE] \in ScopeObjects
        /\ [scopes[k] EXCEPT !.detached = TRUE].id = scopes[k].id
    BY <2>1 DEF ScopeObjects
  <2>3. scopes' = [scopes EXCEPT ![k] = [scopes[k] EXCEPT !.detached = TRUE]]
    BY <1>2
  <2>4. QED
    BY <2>1, <2>2, <2>3
<1>6. IdTypes'
  <2>1. /\ Known(main_stack', n)
        /\ \A e \in DOMAIN fork_stacks' : Known(fork_stacks'[e], n)
    BY <1>3, <1>4 DEF IndInv, IdTypes
  <2>2. guard_stack' \in Seq(Nat)
    BY <1>2, <1>3 DEF Known
  <2>3. \A j \in 1 .. Len(scopes') : scopes'[j].id \in Ids
    BY <1>5 DEF IndInv, IdTypes
  <2>4. Ids' = Ids
    BY <1>2 DEF Ids
  <2>5. QED
    BY <1>2, <1>4, <1>5, <2>1, <2>2, <2>3, <2>4 DEF IndInv, IdTypes
<1>7. StacksAgree'
  BY <1>2, <1>4 DEF StacksAgree
<1>8. RootApart'
  BY <1>2, <1>3, <1>4, <1>5 DEF IndInv, RootApart
<1>9. QED
  BY <1>6, <1>7, <1>8 DEF IndInv

\* fork_execution: a copy of the active stack; the active stack stays as it is.
LEMMA ForkStep ==
  ASSUME IndInv, NEW e \in Executions, Fork(e)
  PROVE  IndInv'
<1>1. /\ UNCHANGED <<ctx_of, context_storage, guard_stack, main_stack,
                      current_execution, request_id, scopes>>
      /\ DOMAIN fork_stacks' = DOMAIN fork_stacks \cup {e}
      /\ fork_stacks'[e] = Active
      /\ \A x \in DOMAIN fork_stacks \ {e} : fork_stacks'[x] = fork_stacks[x]
  BY DEF Fork, tableVars, requestVars, phpVars
<1>2. /\ Known(Active, Len(ctx_of))
      /\ request_id # 0 => Apart(Active, request_id)
  BY ActiveKnown DEF IndInv
<1>3. IdTypes'
  <2>1. \A x \in DOMAIN fork_stacks' : Known(fork_stacks'[x], Len(ctx_of))
    BY <1>1, <1>2 DEF IndInv, IdTypes
  <2>2. Ids' = Ids
    BY <1>1 DEF Ids
  <2>3. QED
    BY <1>1, <2>1, <2>2 DEF IndInv, IdTypes
<1>4. StacksAgree'
  BY <1>1 DEF IndInv, IdTypes, StacksAgree, Active, StackOf
<1>5. RootApart'
  BY <1>1, <1>2 DEF IndInv, RootApart
<1>6. QED
  BY <1>3, <1>4, <1>5 DEF IndInv

\* switch_execution: the guards become those of the stack that becomes active.
LEMMA SwitchStep ==
  ASSUME IndInv, NEW x \in Executions \cup {Main}, Switch(x)
  PROVE  IndInv'
<1>1. /\ UNCHANGED <<ctx_of, context_storage, main_stack, fork_stacks, request_id, scopes>>
      /\ current_execution' = x
      /\ x = Main \/ x \in DOMAIN fork_stacks
      /\ guard_stack' = StackOf(x)
  BY DEF Switch, GuardsFor, tableVars, requestVars, phpVars
<1>2. StackOf(x) \in Seq(Nat)
  BY <1>1 DEF IndInv, IdTypes, StackOf, Known
<1>3. Ids' = Ids
  BY <1>1 DEF Ids
<1>4. IdTypes'
  BY <1>1, <1>2, <1>3 DEF IndInv, IdTypes
<1>5. StacksAgree'
  BY <1>1 DEF StacksAgree, Active, StackOf
<1>6. RootApart'
  BY <1>1 DEF IndInv, RootApart
<1>7. QED
  BY <1>4, <1>5, <1>6 DEF IndInv

\* destroy_execution: never the one whose guards are attached.
LEMMA DestroyStep ==
  ASSUME IndInv, NEW e \in Executions, Destroy(e)
  PROVE  IndInv'
<1>1. /\ UNCHANGED <<ctx_of, context_storage, guard_stack, main_stack,
                      current_execution, request_id, scopes>>
      /\ e # current_execution
      /\ DOMAIN fork_stacks' = DOMAIN fork_stacks \ {e}
      /\ \A x \in DOMAIN fork_stacks' : fork_stacks'[x] = fork_stacks[x]
  BY DEF Destroy, tableVars, requestVars, phpVars
<1>2. Ids' = Ids
  BY <1>1 DEF Ids
<1>3. IdTypes'
  BY <1>1, <1>2 DEF IndInv, IdTypes
<1>4. StacksAgree'
  BY <1>1 DEF IndInv, IdTypes, StacksAgree, Active, StackOf
<1>5. RootApart'
  BY <1>1 DEF IndInv, RootApart
<1>6. QED
  BY <1>3, <1>4, <1>5 DEF IndInv

\* Storage::scope: one more Scope object, for the id on top.
LEMMA ScopeStep ==
  ASSUME IndInv, StorageScope
  PROVE  IndInv'
<1> DEFINE id    == Last(Active)
           scope == NewScope(id)
<1>1. UNCHANGED <<ctx_of, context_storage, guard_stack, stackVars, request_id>>
      /\ scopes' = Append(scopes, scope) /\ Active # <<>>
  BY DEF StorageScope, tableVars, requestVars
<1>2. Len(ctx_of) \in Nat /\ scopes \in Seq(ScopeObjects) /\ Len(scopes) \in Nat
  BY DEF IndInv, IdTypes
<1>3. Known(Active, Len(ctx_of)) /\ (request_id # 0 => Apart(Active, request_id))
  BY ActiveKnown DEF IndInv
<1>4. id \in 1 .. Len(ctx_of) /\ (request_id # 0 => id # request_id)
  BY <1>1, <1>2, <1>3, KnownPop
<1>5. id \in Nat
  BY <1>4
<1>6. scope \in ScopeObjects /\ scope.id = id
  BY <1>5 DEF NewScope, ScopeObjects, IndInv, IdTypes
<1>7. /\ scopes' \in Seq(ScopeObjects)
      /\ Len(scopes') = Len(scopes) + 1
      /\ \A k \in 1 .. Len(scopes) : scopes'[k] = scopes[k]
      /\ scopes'[Len(scopes) + 1].id = id
  BY <1>1, <1>2, <1>6
<1>8. \A k \in 1 .. Len(scopes') : k \in 1 .. Len(scopes) \/ k = Len(scopes) + 1
  BY <1>2, <1>7
<1>9. IdTypes'
  <2>1. \A k \in 1 .. Len(scopes') : scopes'[k].id \in Ids
    BY <1>4, <1>7, <1>8 DEF IndInv, IdTypes, Ids
  <2>2. Ids' = Ids
    BY <1>1 DEF Ids
  <2>3. QED
    BY <1>1, <1>7, <2>1, <2>2 DEF IndInv, IdTypes, stackVars
<1>10. StacksAgree'
  BY <1>1 DEF IndInv, StacksAgree, Active, StackOf, stackVars
<1>11. RootApart'
  BY <1>1, <1>4, <1>7, <1>8 DEF IndInv, RootApart, stackVars
<1>12. QED
  BY <1>9, <1>10, <1>11 DEF IndInv

-----------------------------------------------------------------------------
\* Every call and every end of a request keeps IndInv.
LEMMA InductiveStep ==
  ASSUME IndInv, [Next]_vars
  PROVE  IndInv'
<1>1. CASE UNCHANGED vars
  BY <1>1, FrameStep DEF vars, tableVars, requestVars, phpVars
<1>2. CASE RequestInitPlain
  BY <1>2, FrameStep DEF RequestInitPlain, tableVars, requestVars, phpVars
<1>3. CASE \E sampled \in BOOLEAN : RequestInitRoot(sampled)
  BY <1>3, RootStep
<1>4. CASE RequestShutdown
  BY <1>4, ShutdownStep
<1>5. CASE RequestShutdownPanics
  BY <1>5, FrameStep DEF RequestShutdownPanics, tableVars, requestVars
<1>6. CASE Capture
  BY <1>6, FrameStep DEF Capture, tableVars, requestVars
<1>7. CASE \E ctx \in Contexts : Activate(ctx)
  BY <1>7, ActivateStep
<1>8. CASE \E id \in Ids : AttachAgain(id)
  BY <1>8, AgainStep
<1>9. CASE StorageScope
  BY <1>9, ScopeStep
<1>10. CASE \E k \in 1 .. Len(scopes) : Detach(k)
  BY <1>10, DetachStep
<1>11. CASE \E e \in Executions : Fork(e) \/ Destroy(e)
  BY <1>11, ForkStep, DestroyStep
<1>12. CASE \E x \in Executions \cup {Main} : Switch(x)
  BY <1>12, SwitchStep
<1>13. ASSUME NEW f \in Frames, PostHook(f) PROVE IndInv'
  BY <1>13, FrameStep DEF PostHook, tableVars, requestVars, phpVars
<1>14. ASSUME NEW f \in Frames, NEW ctx \in {HookSpan, PassiveSpan}, PreHook(f, ctx)
       PROVE  IndInv'
  BY <1>14, FrameStep DEF PreHook, tableVars, requestVars, phpVars
<1>15. CASE EndLocalRoot
  BY <1>15, FrameStep DEF EndLocalRoot, tableVars, phpVars
<1>16. QED
  BY <1>1, <1>2, <1>3, <1>4, <1>5, <1>6, <1>7, <1>8, <1>9, <1>10, <1>11,
     <1>12, <1>13, <1>14, <1>15 DEF Next

\* The guards follow the active stack and the root context is out of reach, always.
THEOREM Invariance == Spec => []IndInv
<1>1. Init => IndInv
  BY DEF Init, IndInv, IdTypes, Known, StacksAgree, Active, StackOf, RootApart
<1>2. IndInv /\ [Next]_vars => IndInv'
  BY InductiveStep
<1>3. QED
  BY <1>1, <1>2, PTL DEF Spec

\* GUARD_STACK is the active stack whatever sequence of attach, detach, fork,
\* switch, destroy and request boundaries led here.
THEOREM GuardsFollowStack == Spec => []StacksAgree
<1>1. IndInv => StacksAgree
  BY DEF IndInv
<1>2. QED
  BY <1>1, Invariance, PTL

\* shutdown() never takes its early return: the root context is stored until then,
\* because user code never holds its id.
THEOREM RootKept == Spec => []RootStaysStored
<1>1. IndInv => RootStaysStored
  BY DEF IndInv, RootApart, RootStaysStored, Stored
<1>2. QED
  BY <1>1, Invariance, PTL

-----------------------------------------------------------------------------
(* The guards on the Rust SDK's context stack.                              *)

Guards == ScopeGuards \cup HookGuards \cup RequestGuards

\* Guards whose contexts carry a span that was given out.
KnownGuards == {g \in Guards : g.ctx \in Contexts}

HookGuardsOf(f) == [by : {"hook"}, key : {f}, ctx : Int]

\* The guards of the scopes on a stack, the contexts of the ids being c.
StackGuards(c, stack) ==
  [i \in 1 .. Len(stack) |-> Guard("scope", stack[i], c[stack[i]])]

\* What is attached is the scopes of GUARD_STACK in their order, one guard for each
\* frame in CONTEXT_GUARD_MAP, that of the request, and no other.
GuardShape ==
  /\ attached \in Seq(KnownGuards)
  /\ Keep(attached, ScopeGuards) = StackGuards(ctx_of, guard_stack)
  /\ guard_map \subseteq Frames /\ IsFiniteSet(guard_map)
  /\ \A f \in Frames :
       Len(Keep(attached, HookGuardsOf(f))) = IF f \in guard_map THEN 1 ELSE 0
  /\ Len(Keep(attached, RequestGuards)) = IF request_id # 0 THEN 1 ELSE 0
  /\ Len(attached) = Len(guard_stack) + Cardinality(guard_map)
                     + (IF request_id # 0 THEN 1 ELSE 0)

\* A guard is held in one place.
LEMMA GuardKinds ==
  /\ ScopeGuards \cap HookGuards = {} /\ ScopeGuards \cap RequestGuards = {}
  /\ HookGuards \cap RequestGuards = {}
  /\ \A f \in Frames : /\ HookGuardsOf(f) \subseteq HookGuards
                       /\ HookGuardsOf(f) \cap ScopeGuards = {}
                       /\ HookGuardsOf(f) \cap RequestGuards = {}
                       /\ \A e \in Frames : e # f => HookGuardsOf(f) \cap HookGuardsOf(e) = {}
  /\ KnownGuards \subseteq Guards
BY DEF ScopeGuards, HookGuards, RequestGuards, HookGuardsOf, KnownGuards

\* Where a guard is held shows in its fields.
LEMMA GuardFields ==
  ASSUME NEW g \in Guards
  PROVE  /\ g \in ScopeGuards <=> g.by = "scope"
         /\ g \in HookGuards <=> g.by = "hook"
         /\ g \in RequestGuards <=> g.by = "request"
         /\ \A f \in Frames : g \in HookGuardsOf(f) <=> g.by = "hook" /\ g.key = f
         /\ g \in HookGuards => g.key \in Frames /\ g \in HookGuardsOf(g.key)
BY DEF Guards, ScopeGuards, HookGuards, RequestGuards, HookGuardsOf

\* take_guard and the replacement of a guard drop one guard of the frame, or none when
\* there is none.
LEMMA DropHookRemoves ==
  ASSUME NEW s \in Seq(Guards), NEW f \in Frames
  PROVE  \/ /\ \A i \in 1 .. Len(s) : s[i] \notin HookGuardsOf(f)
            /\ DropHook(s, f) = s
         \/ \E i \in 1 .. Len(s) : /\ s[i] \in HookGuardsOf(f)
                                   /\ DropHook(s, f) = RemoveAt(s, i)
<1> DEFINE I == {i \in 1 .. Len(s) : s[i].by = "hook" /\ s[i].key = f}
<1>1. \A i \in 1 .. Len(s) : i \in I <=> s[i] \in HookGuardsOf(f)
  BY GuardFields
<1>2. DropHook(s, f) = IF \E i \in 1 .. Len(s) : s[i].by = "hook" /\ s[i].key = f
                       THEN RemoveAt(s, IF I # {} THEN Min(I) ELSE 0) ELSE s
  BY DEF DropHook, RemoveFirstMatch, SelectInSeq
<1>3. CASE I = {}
  BY <1>1, <1>2, <1>3
<1>4. CASE I # {}
  <2>1. PICK m \in I : \A y \in I : m <= y
    <3>1. I \in SUBSET Nat
      OBVIOUS
    <3>2. QED
      BY <1>4, <3>1, LeastElement
  <2>2. Min(I) \in I
    BY <2>1 DEF Min
  <2>3. DropHook(s, f) = RemoveAt(s, Min(I))
    BY <1>2, <1>4
  <2>4. QED
    BY <1>1, <2>2, <2>3
<1>5. QED
  BY <1>3, <1>4

\* Likewise for the guard that RINIT finds in OTEL_REQUEST_GUARD.
LEMMA DropOldestRemoves ==
  ASSUME NEW s \in Seq(Guards)
  PROVE  \/ /\ \A i \in 1 .. Len(s) : s[i] \notin RequestGuards
            /\ DropOldest(s, "request") = s
         \/ \E i \in 1 .. Len(s) : /\ s[i] \in RequestGuards
                                   /\ DropOldest(s, "request") = RemoveAt(s, i)
<1> DEFINE I == {i \in 1 .. Len(s) : s[i].by = "request"}
<1>1. \A i \in 1 .. Len(s) : i \in I <=> s[i] \in RequestGuards
  BY GuardFields
<1>2. DropOldest(s, "request") = IF \E i \in 1 .. Len(s) : s[i].by = "request"
                                 THEN RemoveAt(s, IF I # {} THEN Min(I) ELSE 0) ELSE s
  BY DEF DropOldest, RemoveFirstMatch, SelectInSeq
<1>3. CASE I = {}
  BY <1>1, <1>2, <1>3
<1>4. CASE I # {}
  <2>1. PICK m \in I : \A y \in I : m <= y
    <3>1. I \in SUBSET Nat
      OBVIOUS
    <3>2. QED
      BY <1>4, <3>1, LeastElement
  <2>2. Min(I) \in I
    BY <2>1 DEF Min
  <2>3. DropOldest(s, "request") = RemoveAt(s, Min(I))
    BY <1>2, <1>4
  <2>4. QED
    BY <1>1, <2>2, <2>3
<1>5. QED
  BY <1>3, <1>4

\* The guard that a detach drops is the last of the scopes' guards.
LEMMA DropScopeRemoves ==
  ASSUME NEW s \in Seq(Guards), NEW id, Keep(s, ScopeGuards) # <<>>,
         Last(Keep(s, ScopeGuards)).key = id
  PROVE  \E i \in 1 .. Len(s) : /\ s[i] \in ScopeGuards
                                /\ \A j \in i + 1 .. Len(s) : s[j] \notin ScopeGuards
                                /\ DropScope(s, id) = RemoveAt(s, i)
<1> DEFINE I == {i \in 1 .. Len(s) : s[i].by = "scope" /\ s[i].key = id}
<1>1. DropScope(s, id) = RemoveAt(s, IF I # {} THEN Max(I) ELSE 0)
  BY DEF DropScope, SelectLastInSeq
<1>2. PICK i \in 1 .. Len(s) : /\ s[i] \in ScopeGuards /\ s[i] = Last(Keep(s, ScopeGuards))
                               /\ \A j \in i + 1 .. Len(s) : s[j] \notin ScopeGuards
  BY LastKept
<1>3. i \in I
  BY <1>2, GuardFields
<1>4. \A j \in I : i >= j
  <2>1. \A j \in 1 .. Len(s) : s[j].by = "scope" => s[j] \in ScopeGuards
    BY GuardFields
  <2>2. Len(s) \in Nat
    OBVIOUS
  <2>3. QED
    BY <1>2, <2>1, <2>2
<1>5. Max(I) = i
  <2>1. \A x \in I : (\A y \in I : x >= y) => x = i
    BY <1>3, <1>4
  <2>2. QED
    BY <1>3, <1>4, <2>1 DEF Max
<1>6. DropScope(s, id) = RemoveAt(s, i)
  BY <1>1, <1>3, <1>5
<1>7. QED
  BY <1>2, <1>6

-----------------------------------------------------------------------------
\* Dropping the guard of a frame leaves every other guard where it was.
LEMMA HookDropped ==
  ASSUME NEW X, X \subseteq Guards, NEW s \in Seq(X), NEW f \in Frames,
         Len(Keep(s, HookGuardsOf(f))) \in {0, 1}
  PROVE  /\ DropHook(s, f) \in Seq(X)
         /\ Keep(DropHook(s, f), ScopeGuards) = Keep(s, ScopeGuards)
         /\ Keep(DropHook(s, f), RequestGuards) = Keep(s, RequestGuards)
         /\ \A e \in Frames : e # f =>
              Keep(DropHook(s, f), HookGuardsOf(e)) = Keep(s, HookGuardsOf(e))
         /\ Len(Keep(DropHook(s, f), HookGuardsOf(f))) = 0
         /\ Len(DropHook(s, f)) = Len(s) - Len(Keep(s, HookGuardsOf(f)))
<1>1. s \in Seq(Guards) /\ Len(s) \in Nat
  BY SeqMonotonic
<1>2. CASE /\ \A i \in 1 .. Len(s) : s[i] \notin HookGuardsOf(f)
           /\ DropHook(s, f) = s
  <2>1. ~(Len(Keep(s, HookGuardsOf(f))) > 0)
    BY <1>2, KeepSomething
  <2>2. Len(Keep(s, HookGuardsOf(f))) = 0
    BY <2>1
  <2>3. QED
    BY <1>1, <1>2, <2>2
<1>3. ASSUME NEW i \in 1 .. Len(s), s[i] \in HookGuardsOf(f), DropHook(s, f) = RemoveAt(s, i)
      PROVE  /\ DropHook(s, f) \in Seq(X)
             /\ Keep(DropHook(s, f), ScopeGuards) = Keep(s, ScopeGuards)
             /\ Keep(DropHook(s, f), RequestGuards) = Keep(s, RequestGuards)
             /\ \A e \in Frames : e # f =>
                  Keep(DropHook(s, f), HookGuardsOf(e)) = Keep(s, HookGuardsOf(e))
             /\ Len(Keep(DropHook(s, f), HookGuardsOf(f))) = 0
             /\ Len(DropHook(s, f)) = Len(s) - Len(Keep(s, HookGuardsOf(f)))
  <2>1. RemoveAt(s, i) \in Seq(X) /\ Len(RemoveAt(s, i)) = Len(s) - 1
    BY RemoveIsSeq
  <2>2. \A S : s[i] \notin S => Keep(RemoveAt(s, i), S) = Keep(s, S)
    BY KeepRemove
  <2>3. s[i] \notin ScopeGuards /\ s[i] \notin RequestGuards
    BY <1>3, GuardKinds
  <2>4. \A e \in Frames : e # f => s[i] \notin HookGuardsOf(e)
    BY <1>3, GuardKinds
  <2>5. Len(Keep(s, HookGuardsOf(f))) = Len(Keep(RemoveAt(s, i), HookGuardsOf(f))) + 1
    BY <1>3, KeepRemove
  <2>6. Len(Keep(RemoveAt(s, i), HookGuardsOf(f))) \in Nat
    <3>1. Keep(RemoveAt(s, i), HookGuardsOf(f)) \in Seq(X \cap HookGuardsOf(f))
      BY <2>1, KeepIsSeq
    <3>2. QED
      BY <3>1
  <2>7. /\ Len(Keep(RemoveAt(s, i), HookGuardsOf(f))) = 0
        /\ Len(Keep(s, HookGuardsOf(f))) = 1
    BY <2>5, <2>6
  <2>8. QED
    BY <1>3, <2>1, <2>2, <2>3, <2>4, <2>7
<1>4. QED
  BY <1>1, <1>2, <1>3, DropHookRemoves

\* So does dropping the guard of the request.
LEMMA RequestDropped ==
  ASSUME NEW X, X \subseteq Guards, NEW s \in Seq(X),
         Len(Keep(s, RequestGuards)) \in {0, 1}
  PROVE  /\ DropOldest(s, "request") \in Seq(X)
         /\ Keep(DropOldest(s, "request"), ScopeGuards) = Keep(s, ScopeGuards)
         /\ \A e \in Frames :
              Keep(DropOldest(s, "request"), HookGuardsOf(e)) = Keep(s, HookGuardsOf(e))
         /\ Len(Keep(DropOldest(s, "request"), RequestGuards)) = 0
         /\ Len(DropOldest(s, "request")) = Len(s) - Len(Keep(s, RequestGuards))
<1> DEFINE d == DropOldest(s, "request")
<1>1. s \in Seq(Guards) /\ Len(s) \in Nat
  BY SeqMonotonic
<1>2. CASE (\A i \in 1 .. Len(s) : s[i] \notin RequestGuards) /\ d = s
  <2>1. ~(Len(Keep(s, RequestGuards)) > 0)
    BY <1>2, KeepSomething
  <2>2. Len(Keep(s, RequestGuards)) = 0
    BY <2>1
  <2>3. QED
    BY <1>1, <1>2, <2>2
<1>3. CASE \E i \in 1 .. Len(s) : s[i] \in RequestGuards /\ d = RemoveAt(s, i)
  <2>1. PICK i \in 1 .. Len(s) : s[i] \in RequestGuards /\ d = RemoveAt(s, i)
    BY <1>3
  <2>2. RemoveAt(s, i) \in Seq(X) /\ Len(RemoveAt(s, i)) = Len(s) - 1
    BY RemoveIsSeq
  <2>3. \A S : s[i] \notin S => Keep(RemoveAt(s, i), S) = Keep(s, S)
    BY KeepRemove
  <2>4. s[i] \notin ScopeGuards /\ \A e \in Frames : s[i] \notin HookGuardsOf(e)
    BY <2>1, GuardKinds
  <2>5. Len(Keep(s, RequestGuards)) = Len(Keep(RemoveAt(s, i), RequestGuards)) + 1
    BY <2>1, KeepRemove
  <2>6. Len(Keep(RemoveAt(s, i), RequestGuards)) \in Nat
    <3>1. Keep(RemoveAt(s, i), RequestGuards) \in Seq(X \cap RequestGuards)
      BY <2>2, KeepIsSeq
    <3>2. QED
      BY <3>1
  <2>7. /\ Len(Keep(RemoveAt(s, i), RequestGuards)) = 0
        /\ Len(Keep(s, RequestGuards)) = 1
    BY <2>5, <2>6
  <2>8. QED
    BY <2>1, <2>2, <2>3, <2>4, <2>7
<1>4. QED
  BY <1>1, <1>2, <1>3, DropOldestRemoves

-----------------------------------------------------------------------------
\* The guards of a stack are as many as its entries.
LEMMA StackGuardsSeq ==
  ASSUME NEW c \in Seq(Int), NEW stack, Known(stack, Len(c))
  PROVE  /\ StackGuards(c, stack) \in Seq(ScopeGuards)
         /\ Len(StackGuards(c, stack)) = Len(stack) /\ Len(stack) \in Nat
<1>1. stack \in Seq(Nat) /\ Len(stack) \in Nat
      /\ \A i \in 1 .. Len(stack) : stack[i] \in 1 .. Len(c) /\ c[stack[i]] \in Int
  BY DEF Known
<1>2. \A i \in 1 .. Len(stack) : Guard("scope", stack[i], c[stack[i]]) \in ScopeGuards
  BY <1>1 DEF Guard, ScopeGuards
<1>3. StackGuards(c, stack) \in [1 .. Len(stack) -> ScopeGuards]
  BY <1>2 DEF StackGuards
<1>4. QED
  BY <1>1, <1>3, SMTT(30)

\* Ids keep their contexts, so a push adds the guard of the pushed id and no more.
LEMMA StackGuardsPush ==
  ASSUME NEW c \in Seq(Int), NEW c2 \in Seq(Int), Len(c) <= Len(c2),
         \A i \in 1 .. Len(c) : c2[i] = c[i],
         NEW stack, Known(stack, Len(c)), NEW id \in 1 .. Len(c2)
  PROVE  StackGuards(c2, Append(stack, id))
           = Append(StackGuards(c, stack), Guard("scope", id, c2[id]))
<1> DEFINE g == StackGuards(c, stack)
           x == Guard("scope", id, c2[id])
           n == Len(stack)
           t == Append(stack, id)
           h == StackGuards(c2, t)
<1>1. stack \in Seq(Nat) /\ n \in Nat /\ id \in Nat /\ Len(c) \in Nat /\ Len(c2) \in Nat
      /\ \A i \in 1 .. n : stack[i] \in 1 .. Len(c)
  BY DEF Known
<1>2. t \in Seq(Nat) /\ Len(t) = n + 1 /\ t[n + 1] = id
      /\ \A i \in 1 .. n : t[i] = stack[i]
  BY <1>1
<1>3. g \in Seq(ScopeGuards) /\ Len(g) = n
  BY StackGuardsSeq
<1>4. /\ h = [i \in 1 .. n + 1 |-> Guard("scope", t[i], c2[t[i]])]
      /\ \A i \in 1 .. n : g[i] = Guard("scope", stack[i], c[stack[i]])
  BY <1>2 DEF StackGuards
<1>5. \A i \in 1 .. n : h[i] = g[i]
  <2>1. SUFFICES ASSUME NEW i \in 1 .. n PROVE h[i] = g[i]
    OBVIOUS
  <2>2. i \in 1 .. n + 1 /\ stack[i] \in 1 .. Len(c)
    BY <1>1
  <2>3. t[i] = stack[i] /\ c2[stack[i]] = c[stack[i]]
    BY <1>2, <2>2
  <2> HIDE DEF h, g, t, n
  <2>4. QED
    BY <1>4, <2>2, <2>3
<1>6. h[n + 1] = x /\ DOMAIN h = 1 .. n + 1
  <2>1. n + 1 \in 1 .. n + 1
    BY <1>1
  <2> HIDE DEF h, g, t, n
  <2>2. QED
    BY <1>2, <1>4, <2>1
<1>7. x \in ScopeGuards
  BY <1>1 DEF Guard, ScopeGuards
<1>8. h \in Seq(ScopeGuards) /\ Len(h) = n + 1
  <2>1. Known(t, Len(c2))
    BY <1>1, KnownGrows, KnownAppend
  <2>2. QED
    BY <1>2, <2>1, StackGuardsSeq
<1> HIDE DEF g, h, x, t, n
<1>9. Append(g, x) \in Seq(ScopeGuards) /\ Len(Append(g, x)) = n + 1
      /\ \A i \in 1 .. n + 1 : Append(g, x)[i] = h[i]
  <2>1. /\ Append(g, x) \in Seq(ScopeGuards) /\ Len(Append(g, x)) = n + 1
        /\ Append(g, x)[n + 1] = x /\ \A i \in 1 .. n : Append(g, x)[i] = g[i]
    BY <1>1, <1>3, <1>7
  <2>2. \A i \in 1 .. n + 1 : i \in 1 .. n \/ i = n + 1
    BY <1>1
  <2>3. QED
    BY <1>5, <1>6, <2>1, <2>2
<1>10. h = Append(g, x)
  BY <1>8, <1>9, SeqEqual
<1>11. QED
  BY <1>10 DEF g, h, x, t

\* A pop removes the guard of the id on top.
LEMMA StackGuardsPop ==
  ASSUME NEW c \in Seq(Int), NEW stack, Known(stack, Len(c)), stack # <<>>
  PROVE  /\ StackGuards(c, stack)
              = Append(StackGuards(c, Pop(stack)), Guard("scope", Last(stack), c[Last(stack)]))
         /\ StackGuards(c, Pop(stack)) \in Seq(ScopeGuards)
         /\ Len(stack) = Len(Pop(stack)) + 1
<1>1. Len(c) \in Nat
  OBVIOUS
<1>2. Known(Pop(stack), Len(c)) /\ Last(stack) \in 1 .. Len(c)
  BY <1>1, KnownPop
<1>3. stack = Append(Pop(stack), Last(stack)) /\ Len(stack) = Len(Pop(stack)) + 1
  <2>1. stack \in Seq(Nat) /\ Len(stack) \in Nat \ {0} /\ \A i \in 1 .. Len(stack) : stack[i] \in Nat
    BY EmptySeq DEF Known
  <2>2. /\ Pop(stack) \in Seq(Nat) /\ Len(Pop(stack)) = Len(stack) - 1
        /\ \A i \in 1 .. Len(stack) - 1 : Pop(stack)[i] = stack[i]
    <3> DEFINE m == Len(stack) - 1
    <3>1. m \in Nat /\ 1 \in Int /\ m \in Int /\ \A i \in 1 .. m : stack[i] \in Nat
      BY <2>1
    <3> HIDE DEF m
    <3>2. /\ SubSeq(stack, 1, m) \in Seq(Nat)
          /\ Len(SubSeq(stack, 1, m)) = IF 1 <= m THEN m - 1 + 1 ELSE 0
          /\ \A i \in 1 .. m - 1 + 1 : SubSeq(stack, 1, m)[i] = stack[1 + i - 1]
      BY <3>1, SubSeqProperties
    <3>3. /\ Len(SubSeq(stack, 1, m)) = m
          /\ \A i \in 1 .. m : SubSeq(stack, 1, m)[i] = stack[i]
      BY <3>1, <3>2
    <3>4. QED
      BY <3>2, <3>3 DEF Pop, m
  <2>3. Last(stack) = stack[Len(stack)] /\ Last(stack) \in Nat
    BY <2>1 DEF Last
  <2>4. /\ Append(Pop(stack), Last(stack)) \in Seq(Nat)
        /\ Len(Append(Pop(stack), Last(stack))) = Len(stack)
        /\ \A i \in 1 .. Len(stack) : Append(Pop(stack), Last(stack))[i] = stack[i]
    BY <2>1, <2>2, <2>3
  <2>5. Append(Pop(stack), Last(stack)) = stack
    BY <2>1, <2>4, SeqEqual
  <2>6. QED
    BY <2>1, <2>2, <2>5
<1>4. StackGuards(c, Append(Pop(stack), Last(stack)))
        = Append(StackGuards(c, Pop(stack)), Guard("scope", Last(stack), c[Last(stack)]))
  BY <1>1, <1>2, StackGuardsPush
<1>5. StackGuards(c, Pop(stack)) \in Seq(ScopeGuards)
  BY <1>2, StackGuardsSeq
<1>6. QED
  BY <1>3, <1>4, <1>5

\* What was pushed on can be told from the result.
LEMMA AppendCancels ==
  ASSUME NEW X, NEW s \in Seq(X), NEW t \in Seq(X), NEW x \in X, NEW y \in X,
         Append(s, x) = Append(t, y)
  PROVE  s = t
<1>1. Len(s) \in Nat /\ Len(t) \in Nat /\ Len(Append(s, x)) = Len(s) + 1
      /\ Len(Append(t, y)) = Len(t) + 1
  OBVIOUS
<1>2. Len(s) = Len(t)
  BY <1>1
<1>3. \A i \in 1 .. Len(s) : s[i] = Append(s, x)[i] /\ t[i] = Append(t, y)[i]
  BY <1>1, <1>2
<1>4. QED
  BY <1>2, <1>3, SeqEqual

-----------------------------------------------------------------------------
\* Contexts that were given out stay so.
LEMMA KnownGuardsGrow ==
  ASSUME Len(ctx_of) \in Nat, Len(ctx_of') \in Nat, Len(ctx_of) <= Len(ctx_of')
  PROVE  KnownGuards \subseteq KnownGuards' /\ Contexts \subseteq Contexts'
<1>1. Contexts \subseteq Contexts'
  BY DEF Contexts, Ids, NoSpan, PassiveSpan, HookSpan
<1>2. QED
  BY <1>1 DEF KnownGuards, Guards, ScopeGuards, HookGuards, RequestGuards

\* The entries of GUARD_STACK were given out, and the sizes are numbers.
LEMMA GuardSizes ==
  ASSUME IndInv, GuardShape
  PROVE  /\ Known(guard_stack, Len(ctx_of)) /\ Len(guard_stack) \in Nat
         /\ Len(attached) \in Nat /\ Cardinality(guard_map) \in Nat
         /\ ctx_of \in Seq(Int) /\ Len(ctx_of) \in Nat
<1>1. Known(guard_stack, Len(ctx_of))
  BY ActiveKnown DEF IndInv, StacksAgree
<1>2. Cardinality(guard_map) \in Nat
  BY FS_CardinalityType DEF GuardShape
<1>3. ctx_of \in Seq(Int) /\ guard_stack \in Seq(Nat) /\ attached \in Seq(KnownGuards)
  BY DEF IndInv, IdTypes, GuardShape
<1>4. QED
  BY <1>1, <1>2, <1>3

\* Steps that attach and drop no guard.
LEMMA FrameGuards ==
  ASSUME GuardShape, UNCHANGED <<ctx_of, attached, guard_stack, guard_map, request_id>>
  PROVE  GuardShape'
<1>1. KnownGuards' = KnownGuards
  BY DEF KnownGuards, Guards, ScopeGuards, HookGuards, RequestGuards, Contexts, Ids,
         NoSpan, PassiveSpan, HookSpan
<1>2. QED
  BY <1>1 DEF GuardShape, StackGuards

\* attach_context pushes the guard with the id.
LEMMA AttachGuards ==
  ASSUME IndInv, GuardShape, NEW id, NEW ctx, AttachId(id, ctx),
         ctx_of' \in Seq(Int), Len(ctx_of) <= Len(ctx_of'),
         \A i \in 1 .. Len(ctx_of) : ctx_of'[i] = ctx_of[i],
         id \in 1 .. Len(ctx_of'), ctx_of'[id] = ctx, ctx \in Contexts'
  PROVE  GuardShape'
<1> DEFINE g == Guard("scope", id, ctx)
<1>1. /\ attached' = Append(attached, g) /\ guard_stack' = Append(guard_stack, id)
      /\ UNCHANGED <<guard_map, request_id>>
  BY DEF AttachId, requestVars
<1>2. /\ Known(guard_stack, Len(ctx_of)) /\ Len(guard_stack) \in Nat
      /\ Len(attached) \in Nat /\ Cardinality(guard_map) \in Nat
      /\ ctx_of \in Seq(Int) /\ Len(ctx_of) \in Nat /\ Len(ctx_of') \in Nat
  BY GuardSizes
<1>3. attached \in Seq(KnownGuards')
  BY <1>2, SeqMonotonic, KnownGuardsGrow DEF GuardShape
<1>4. g \in ScopeGuards /\ g \in KnownGuards'
  <2>1. id \in Nat /\ ctx \in Int
    BY <1>2
  <2>2. g \in ScopeGuards /\ g.ctx = ctx
    BY <2>1 DEF Guard, ScopeGuards
  <2>3. QED
    BY <2>2 DEF KnownGuards, Guards
<1> HIDE DEF g
<1>5. \A S : Keep(attached', S) = IF g \in S THEN Append(Keep(attached, S), g)
                                             ELSE Keep(attached, S)
  BY <1>1, <1>3, <1>4, KeepAppend
<1>6. StackGuards(ctx_of', guard_stack') = Append(StackGuards(ctx_of, guard_stack), g)
  BY <1>1, <1>2, StackGuardsPush DEF g
<1>7. Keep(attached', ScopeGuards) = StackGuards(ctx_of', guard_stack')
  BY <1>4, <1>5, <1>6 DEF GuardShape
<1>8. g \notin RequestGuards /\ \A f \in Frames : g \notin HookGuardsOf(f)
  BY <1>4, GuardKinds
<1>9. /\ Keep(attached', RequestGuards) = Keep(attached, RequestGuards)
      /\ \A f \in Frames : Keep(attached', HookGuardsOf(f)) = Keep(attached, HookGuardsOf(f))
  BY <1>5, <1>8
<1>10. /\ attached' \in Seq(KnownGuards') /\ Len(attached') = Len(attached) + 1
       /\ Len(guard_stack') = Len(guard_stack) + 1
  BY <1>1, <1>2, <1>3, <1>4 DEF Known
<1>11. Len(attached') = Len(guard_stack') + Cardinality(guard_map')
                        + (IF request_id' # 0 THEN 1 ELSE 0)
  BY <1>1, <1>2, <1>10, SMTT(30) DEF GuardShape
<1>12. QED
  BY <1>1, <1>7, <1>9, <1>10, <1>11 DEF GuardShape

\* Scope::detach drops the guard of the id that it pops.
LEMMA DetachGuards ==
  ASSUME IndInv, GuardShape, NEW k \in 1 .. Len(scopes), Detach(k)
  PROVE  GuardShape'
<1> DEFINE id == scopes[k].id
           a  == StackGuards(ctx_of, Pop(guard_stack))
           x  == Guard("scope", id, ctx_of[id])
<1>1. /\ attached' = DropScope(attached, id) /\ guard_stack' = Pop(guard_stack)
      /\ guard_stack # <<>> /\ Last(guard_stack) = id
      /\ UNCHANGED <<ctx_of, guard_map, request_id>>
  BY DEF Detach
<1>2. /\ Known(guard_stack, Len(ctx_of)) /\ Len(guard_stack) \in Nat
      /\ Len(attached) \in Nat /\ Cardinality(guard_map) \in Nat /\ ctx_of \in Seq(Int)
  BY GuardSizes
<1>3. /\ Keep(attached, ScopeGuards) = Append(a, x) /\ a \in Seq(ScopeGuards)
      /\ Len(guard_stack) = Len(guard_stack') + 1
  BY <1>1, <1>2, StackGuardsPop DEF GuardShape
<1>4. attached \in Seq(KnownGuards) /\ attached \in Seq(Guards)
  BY SeqMonotonic, GuardKinds DEF GuardShape
<1>5. Keep(attached, ScopeGuards) \in Seq(ScopeGuards)
  <2>1. Keep(attached, ScopeGuards) \in Seq(KnownGuards \cap ScopeGuards)
    BY <1>4, KeepIsSeq
  <2>2. QED
    BY <2>1, SeqMonotonic
<1>6. x \in ScopeGuards /\ x.key = id
  <2>1. id \in 1 .. Len(ctx_of) /\ Len(ctx_of) \in Nat
    BY <1>1, <1>2, KnownPop
  <2>2. id \in Nat /\ ctx_of[id] \in Int
    BY <1>2, <2>1
  <2>3. QED
    BY <2>2 DEF Guard, ScopeGuards
<1> HIDE DEF id, x, a
<1>7. Append(a, x) # <<>> /\ Last(Append(a, x)) = x
  BY <1>3, <1>6 DEF Last
<1>8. PICK i \in 1 .. Len(attached) :
        /\ attached[i] \in ScopeGuards
        /\ \A j \in i + 1 .. Len(attached) : attached[j] \notin ScopeGuards
        /\ attached' = RemoveAt(attached, i)
  BY <1>1, <1>3, <1>4, <1>6, <1>7, DropScopeRemoves
<1>9. attached' \in Seq(KnownGuards) /\ Len(attached') = Len(attached) - 1
  BY <1>4, <1>8, RemoveIsSeq
<1>10. Keep(attached', ScopeGuards) = a
  <2>1. Keep(attached, ScopeGuards) = Append(Keep(attached', ScopeGuards), attached[i])
    BY <1>4, <1>8, KeepRemove
  <2>2. Keep(attached', ScopeGuards) \in Seq(ScopeGuards)
    <3>1. Keep(attached', ScopeGuards) \in Seq(KnownGuards \cap ScopeGuards)
      BY <1>9, KeepIsSeq
    <3>2. QED
      BY <3>1, SeqMonotonic
  <2>3. Append(Keep(attached', ScopeGuards), attached[i]) = Append(a, x)
    BY <1>3, <2>1
  <2>4. QED
    BY <1>3, <1>6, <1>8, <2>2, <2>3, AppendCancels
<1>11. attached[i] \notin RequestGuards /\ \A f \in Frames : attached[i] \notin HookGuardsOf(f)
  BY <1>8, GuardKinds
<1>12. /\ Keep(attached', RequestGuards) = Keep(attached, RequestGuards)
       /\ \A f \in Frames : Keep(attached', HookGuardsOf(f)) = Keep(attached, HookGuardsOf(f))
  BY <1>4, <1>8, <1>11, KeepRemove
<1>13. Len(attached') = Len(guard_stack') + Cardinality(guard_map')
                        + (IF request_id' # 0 THEN 1 ELSE 0)
  <2>1. Len(guard_stack') \in Nat
    BY <1>1, <1>2, KnownPop, StackGuardsSeq
  <2>2. Len(attached) = Len(guard_stack) + Cardinality(guard_map)
                        + (IF request_id # 0 THEN 1 ELSE 0)
    BY DEF GuardShape
  <2>3. Cardinality(guard_map') = Cardinality(guard_map) /\ request_id' = request_id
    BY <1>1
  <2>4. QED
    BY <1>2, <1>3, <1>9, <2>1, <2>2, <2>3
<1>14. KnownGuards' = KnownGuards
  BY <1>1 DEF KnownGuards, Guards, ScopeGuards, HookGuards, RequestGuards, Contexts, Ids,
              NoSpan, PassiveSpan, HookSpan
<1>15. Keep(attached', ScopeGuards) = StackGuards(ctx_of', guard_stack')
  BY <1>1, <1>10 DEF a
<1>16. QED
  BY <1>1, <1>9, <1>12, <1>13, <1>14, <1>15 DEF GuardShape

\* switch_execution replaces the scopes' guards and keeps the others in their order.
LEMMA SwitchGuards ==
  ASSUME IndInv, GuardShape, \A id \in Ids : ctx_of[id] \in Contexts,
         NEW x \in Executions \cup {Main}, Switch(x)
  PROVE  GuardShape'
<1> DEFINE stack == StackOf(x)
           rest  == Keep(attached, HookGuards \cup RequestGuards)
           new   == StackGuards(ctx_of, stack)
<1>1. /\ attached' = rest \o new /\ guard_stack' = stack
      /\ UNCHANGED <<ctx_of, guard_map, request_id>>
  BY DEF Switch, GuardsFor, Reattached, StackGuards, ScopeGuard, requestVars
<1>2. /\ Len(guard_stack) \in Nat /\ Len(attached) \in Nat /\ Cardinality(guard_map) \in Nat
      /\ ctx_of \in Seq(Int) /\ Len(ctx_of) \in Nat /\ Known(guard_stack, Len(ctx_of))
  BY GuardSizes
<1>3. Known(stack, Len(ctx_of))
  BY DEF Switch, StackOf, IndInv, IdTypes
<1>4. new \in Seq(ScopeGuards) /\ Len(new) = Len(stack) /\ Len(stack) \in Nat
  BY <1>2, <1>3, StackGuardsSeq
<1>5. new \in Seq(KnownGuards)
  <2>1. \A i \in 1 .. Len(stack) : new[i] \in KnownGuards
    <3>1. SUFFICES ASSUME NEW i \in 1 .. Len(stack) PROVE new[i] \in KnownGuards
      OBVIOUS
    <3>2. new[i] \in ScopeGuards
      BY <1>4
    <3>3. new[i].ctx = ctx_of[stack[i]]
      BY DEF StackGuards, Guard
    <3>4. stack[i] \in Ids
      BY <1>3 DEF Known, Ids
    <3>5. QED
      BY <3>2, <3>3, <3>4 DEF KnownGuards, Guards
  <2>2. QED
    BY <1>4, <2>1
<1> HIDE DEF stack, new
<1>6. attached \in Seq(KnownGuards) /\ rest \in Seq(KnownGuards \cap (HookGuards \cup RequestGuards))
  BY KeepIsSeq DEF GuardShape
<1>7. rest \in Seq(KnownGuards) /\ rest \in Seq(HookGuards \cup RequestGuards)
  BY <1>6, SeqMonotonic
<1>8. Keep(attached', ScopeGuards) = new
  <2>1. Keep(rest, ScopeGuards) = <<>>
    BY <1>7, KeepAllOrNone, GuardKinds
  <2>2. Keep(new, ScopeGuards) = new
    BY <1>4, KeepAllOrNone
  <2> HIDE DEF rest
  <2>3. Keep(rest \o new, ScopeGuards) = Keep(rest, ScopeGuards) \o Keep(new, ScopeGuards)
    BY <1>5, <1>7, KeepConcat
  <2>4. <<>> \o new = new
    BY <1>4, ConcatEmptySeq
  <2>5. QED
    BY <1>1, <2>1, <2>2, <2>3, <2>4
<1>9. ASSUME NEW T, T \subseteq HookGuards \cup RequestGuards
      PROVE  Keep(attached', T) = Keep(attached, T)
  <2>1. Keep(new, T) = <<>>
    <3>1. ScopeGuards \cap T = {}
      BY <1>9, GuardKinds
    <3>2. QED
      BY <1>4, <3>1, KeepAllOrNone
  <2>2. Keep(rest, T) = Keep(attached, T)
    BY <1>6, <1>9, KeepNarrower
  <2>3. Keep(attached, T) \in Seq(KnownGuards \cap T)
    BY <1>6, KeepIsSeq
  <2> HIDE DEF rest
  <2>4. Keep(rest \o new, T) = Keep(rest, T) \o Keep(new, T)
    BY <1>5, <1>7, KeepConcat
  <2>5. Keep(attached, T) \o <<>> = Keep(attached, T)
    BY <2>3, ConcatEmptySeq
  <2>6. QED
    BY <1>1, <2>1, <2>2, <2>4, <2>5
<1>10. /\ Keep(attached', RequestGuards) = Keep(attached, RequestGuards)
       /\ \A f \in Frames : Keep(attached', HookGuardsOf(f)) = Keep(attached, HookGuardsOf(f))
  BY <1>9, GuardKinds
<1>11. /\ Len(attached) = Len(Keep(attached, ScopeGuards)) + Len(rest)
       /\ Len(Keep(attached, ScopeGuards)) = Len(guard_stack)
       /\ Len(rest) \in Nat
  <2>1. KnownGuards \subseteq ScopeGuards \cup (HookGuards \cup RequestGuards)
    BY DEF KnownGuards, Guards
  <2>2. ScopeGuards \cap (HookGuards \cup RequestGuards) = {}
    BY GuardKinds
  <2>3. Len(attached) = Len(Keep(attached, ScopeGuards)) + Len(rest)
    BY <1>6, <2>1, <2>2, KeepLengths
  <2>4. Keep(attached, ScopeGuards) = StackGuards(ctx_of, guard_stack)
    BY DEF GuardShape
  <2>5. Len(StackGuards(ctx_of, guard_stack)) = Len(guard_stack)
    BY <1>2, StackGuardsSeq
  <2>6. QED
    BY <1>7, <2>3, <2>4, <2>5
<1>12. attached' \in Seq(KnownGuards) /\ Len(attached') = Len(rest) + Len(new)
  <2> HIDE DEF rest
  <2>1. QED
    BY <1>1, <1>5, <1>7, ConcatProperties
<1>13. Len(attached') = Len(guard_stack') + Cardinality(guard_map')
                        + (IF request_id' # 0 THEN 1 ELSE 0)
  <2>1. Len(attached) = Len(guard_stack) + Cardinality(guard_map)
                        + (IF request_id # 0 THEN 1 ELSE 0)
    BY DEF GuardShape
  <2>2. Cardinality(guard_map') = Cardinality(guard_map) /\ request_id' = request_id
        /\ Len(guard_stack') = Len(stack)
    BY <1>1
  <2> HIDE DEF rest
  <2>3. Len(rest) = Len(attached) - Len(guard_stack)
    BY <1>2, <1>11
  <2>4. Len(attached') = Len(attached) - Len(guard_stack) + Len(stack)
    BY <1>4, <1>12, <2>3
  <2>5. QED
    BY <1>2, <1>4, <2>1, <2>2, <2>4
<1>14. KnownGuards' = KnownGuards
  BY <1>1 DEF KnownGuards, Guards, ScopeGuards, HookGuards, RequestGuards, Contexts, Ids,
              NoSpan, PassiveSpan, HookSpan
<1>15. Keep(attached', ScopeGuards) = StackGuards(ctx_of', guard_stack')
  BY <1>1, <1>8 DEF new
<1>16. QED
  BY <1>1, <1>10, <1>12, <1>13, <1>14, <1>15 DEF GuardShape

\* A hooked function begins: its guard replaces one left under the same frame.
LEMMA PreHookGuards ==
  ASSUME IndInv, GuardShape, NEW f \in Frames, NEW ctx \in {HookSpan, PassiveSpan},
         PreHook(f, ctx)
  PROVE  GuardShape'
<1> DEFINE d == DropHook(attached, f)
           g == Guard("hook", f, ctx)
<1>1. /\ attached' = Append(d, g) /\ guard_map' = guard_map \cup {f}
      /\ UNCHANGED <<ctx_of, guard_stack, request_id>>
  BY DEF PreHook, requestVars
<1>2. /\ Len(guard_stack) \in Nat /\ Len(attached) \in Nat /\ Cardinality(guard_map) \in Nat
  BY GuardSizes
<1>3. attached \in Seq(KnownGuards) /\ KnownGuards \subseteq Guards
      /\ Len(Keep(attached, HookGuardsOf(f))) = IF f \in guard_map THEN 1 ELSE 0
  BY GuardKinds DEF GuardShape
<1>4. Len(Keep(attached, HookGuardsOf(f))) \in {0, 1}
  BY <1>3
<1>5. /\ d \in Seq(KnownGuards)
      /\ Keep(d, ScopeGuards) = Keep(attached, ScopeGuards)
      /\ Keep(d, RequestGuards) = Keep(attached, RequestGuards)
      /\ \A e \in Frames : e # f => Keep(d, HookGuardsOf(e)) = Keep(attached, HookGuardsOf(e))
      /\ Len(Keep(d, HookGuardsOf(f))) = 0
      /\ Len(d) = Len(attached) - Len(Keep(attached, HookGuardsOf(f)))
  BY <1>3, <1>4, HookDropped
<1>6. g \in HookGuardsOf(f) /\ g \in KnownGuards
  <2>1. ctx \in Int /\ ctx \in Contexts
    BY DEF HookSpan, PassiveSpan, Contexts
  <2>2. g \in HookGuardsOf(f) /\ g.ctx = ctx
    BY <2>1 DEF Guard, HookGuardsOf
  <2>3. QED
    BY <2>1, <2>2, GuardKinds DEF KnownGuards, Guards
<1> HIDE DEF d, g
<1>7. \A S : Keep(attached', S) = IF g \in S THEN Append(Keep(d, S), g) ELSE Keep(d, S)
  BY <1>1, <1>5, <1>6, KeepAppend
<1>8. /\ Keep(attached', ScopeGuards) = Keep(attached, ScopeGuards)
      /\ Keep(attached', RequestGuards) = Keep(attached, RequestGuards)
      /\ \A e \in Frames : e # f =>
           Keep(attached', HookGuardsOf(e)) = Keep(attached, HookGuardsOf(e))
  BY <1>5, <1>6, <1>7, GuardKinds
<1>9. Len(Keep(attached', HookGuardsOf(f))) = 1
  <2>1. Keep(attached', HookGuardsOf(f)) = Append(Keep(d, HookGuardsOf(f)), g)
    BY <1>6, <1>7
  <2>2. Keep(d, HookGuardsOf(f)) \in Seq(KnownGuards \cap HookGuardsOf(f))
    BY <1>5, KeepIsSeq
  <2>3. QED
    BY <1>5, <1>6, <2>1, <2>2
<1>10. /\ attached' \in Seq(KnownGuards)
       /\ Len(attached') = Len(attached) + 1 - (IF f \in guard_map THEN 1 ELSE 0)
  <2>1. attached' \in Seq(KnownGuards) /\ Len(attached') = Len(d) + 1
    BY <1>1, <1>5, <1>6
  <2>2. QED
    BY <1>2, <1>3, <1>5, <2>1
<1>11. /\ IsFiniteSet(guard_map') /\ guard_map' \subseteq Frames
       /\ Cardinality(guard_map') = Cardinality(guard_map) + 1 - (IF f \in guard_map THEN 1 ELSE 0)
  <2>1. IsFiniteSet(guard_map) /\ guard_map \subseteq Frames
    BY DEF GuardShape
  <2>2. QED
    BY <1>1, <1>2, <2>1, FS_AddElement
<1>12. Len(attached') = Len(guard_stack') + Cardinality(guard_map')
                        + (IF request_id' # 0 THEN 1 ELSE 0)
  <2>1. Len(attached) = Len(guard_stack) + Cardinality(guard_map)
                        + (IF request_id # 0 THEN 1 ELSE 0)
    BY DEF GuardShape
  <2>2. QED
    BY <1>1, <1>2, <1>10, <1>11, <2>1
<1>13. KnownGuards' = KnownGuards
  BY <1>1 DEF KnownGuards, Guards, ScopeGuards, HookGuards, RequestGuards, Contexts, Ids,
              NoSpan, PassiveSpan, HookSpan
<1>14. \A e \in Frames :
         Len(Keep(attached', HookGuardsOf(e))) = IF e \in guard_map' THEN 1 ELSE 0
  <2>1. \A e \in Frames : e # f => (e \in guard_map' <=> e \in guard_map)
    BY <1>1
  <2>2. f \in guard_map'
    BY <1>1
  <2>3. QED
    BY <1>8, <1>9, <2>1, <2>2 DEF GuardShape
<1>15. QED
  BY <1>1, <1>8, <1>10, <1>11, <1>12, <1>13, <1>14 DEF GuardShape

\* A hooked function returns, whatever began or returned in between.
LEMMA PostHookGuards ==
  ASSUME IndInv, GuardShape, NEW f \in Frames, PostHook(f)
  PROVE  GuardShape'
<1> DEFINE d == DropHook(attached, f)
<1>1. /\ attached' = d /\ guard_map' = guard_map \ {f} /\ f \in guard_map
      /\ UNCHANGED <<ctx_of, guard_stack, request_id>>
  BY DEF PostHook, requestVars
<1>2. /\ Len(guard_stack) \in Nat /\ Len(attached) \in Nat /\ Cardinality(guard_map) \in Nat
  BY GuardSizes
<1>3. attached \in Seq(KnownGuards) /\ KnownGuards \subseteq Guards
      /\ Len(Keep(attached, HookGuardsOf(f))) = 1
  BY <1>1, GuardKinds DEF GuardShape
<1>4. Len(Keep(attached, HookGuardsOf(f))) \in {0, 1}
  BY <1>3
<1>5. /\ d \in Seq(KnownGuards)
      /\ Keep(d, ScopeGuards) = Keep(attached, ScopeGuards)
      /\ Keep(d, RequestGuards) = Keep(attached, RequestGuards)
      /\ \A e \in Frames : e # f => Keep(d, HookGuardsOf(e)) = Keep(attached, HookGuardsOf(e))
      /\ Len(Keep(d, HookGuardsOf(f))) = 0
      /\ Len(d) = Len(attached) - Len(Keep(attached, HookGuardsOf(f)))
  BY <1>3, <1>4, HookDropped
<1> HIDE DEF d
<1>6. /\ IsFiniteSet(guard_map') /\ guard_map' \subseteq Frames
      /\ Cardinality(guard_map') = Cardinality(guard_map) - 1
  <2>1. IsFiniteSet(guard_map) /\ guard_map \subseteq Frames
    BY DEF GuardShape
  <2>2. QED
    BY <1>1, <2>1, FS_RemoveElement
<1>7. Len(attached') = Len(guard_stack') + Cardinality(guard_map')
                       + (IF request_id' # 0 THEN 1 ELSE 0)
  <2>1. Len(attached) = Len(guard_stack) + Cardinality(guard_map)
                        + (IF request_id # 0 THEN 1 ELSE 0)
    BY DEF GuardShape
  <2>2. Len(attached') = Len(attached) - 1
    BY <1>1, <1>3, <1>5
  <2>3. QED
    BY <1>1, <1>2, <1>6, <2>1, <2>2
<1>8. KnownGuards' = KnownGuards
  BY <1>1 DEF KnownGuards, Guards, ScopeGuards, HookGuards, RequestGuards, Contexts, Ids,
              NoSpan, PassiveSpan, HookSpan
<1>9. \A e \in Frames :
        Len(Keep(attached', HookGuardsOf(e))) = IF e \in guard_map' THEN 1 ELSE 0
  <2>1. \A e \in Frames : e # f => (e \in guard_map' <=> e \in guard_map)
    BY <1>1
  <2>2. f \notin guard_map'
    BY <1>1
  <2>3. QED
    BY <1>1, <1>5, <2>1, <2>2 DEF GuardShape
<1>10. QED
  BY <1>1, <1>5, <1>6, <1>7, <1>8, <1>9 DEF GuardShape

\* RINIT attaches the root context; one left by an RSHUTDOWN that unwound goes.
LEMMA RootGuards ==
  ASSUME IndInv, GuardShape, NEW sampled \in BOOLEAN, RequestInitRoot(sampled)
  PROVE  GuardShape'
<1> DEFINE n == Len(ctx_of) + 1
           d == DropOldest(attached, "request")
           g == Guard("request", n, n)
<1>1. /\ attached' = Append(d, g) /\ ctx_of' = Append(ctx_of, n) /\ request_id' = n
      /\ UNCHANGED <<guard_stack, guard_map>>
  BY DEF RequestInitRoot, NextId
<1>2. /\ Len(guard_stack) \in Nat /\ Len(attached) \in Nat /\ Cardinality(guard_map) \in Nat
      /\ ctx_of \in Seq(Int) /\ Len(ctx_of) \in Nat /\ Known(guard_stack, Len(ctx_of))
  BY GuardSizes
<1>3. /\ ctx_of' \in Seq(Int) /\ Len(ctx_of') = n /\ n \in Nat /\ n # 0
      /\ \A i \in 1 .. Len(ctx_of) : ctx_of'[i] = ctx_of[i]
  BY <1>1, <1>2
<1>4. attached \in Seq(KnownGuards') /\ KnownGuards' \subseteq Guards
  <2>1. KnownGuards \subseteq KnownGuards'
    BY <1>2, <1>3, KnownGuardsGrow
  <2>2. KnownGuards' \subseteq Guards
    BY DEF KnownGuards, Guards, ScopeGuards, HookGuards, RequestGuards
  <2>3. QED
    BY <2>1, <2>2, SeqMonotonic DEF GuardShape
<1>5. Len(Keep(attached, RequestGuards)) = IF request_id # 0 THEN 1 ELSE 0
  BY DEF GuardShape
<1>6. Len(Keep(attached, RequestGuards)) \in {0, 1}
  BY <1>5
<1>7. /\ d \in Seq(KnownGuards')
      /\ Keep(d, ScopeGuards) = Keep(attached, ScopeGuards)
      /\ \A e \in Frames : Keep(d, HookGuardsOf(e)) = Keep(attached, HookGuardsOf(e))
      /\ Len(Keep(d, RequestGuards)) = 0
      /\ Len(d) = Len(attached) - Len(Keep(attached, RequestGuards))
  BY <1>4, <1>6, RequestDropped
<1>8. g \in RequestGuards /\ g \in KnownGuards'
  <2>1. g \in RequestGuards /\ g.ctx = n
    BY <1>3 DEF Guard, RequestGuards
  <2>2. n \in Contexts'
    BY <1>3 DEF Contexts, Ids
  <2>3. QED
    BY <2>1, <2>2 DEF KnownGuards, Guards
<1> HIDE DEF d, g, n
<1>9. \A S : Keep(attached', S) = IF g \in S THEN Append(Keep(d, S), g) ELSE Keep(d, S)
  BY <1>1, <1>7, <1>8, KeepAppend
<1>10. g \notin ScopeGuards /\ \A f \in Frames : g \notin HookGuardsOf(f)
  BY <1>8, GuardKinds
<1>11. /\ Keep(attached', ScopeGuards) = Keep(attached, ScopeGuards)
       /\ \A f \in Frames : Keep(attached', HookGuardsOf(f)) = Keep(attached, HookGuardsOf(f))
  BY <1>7, <1>9, <1>10
<1>12. Len(Keep(attached', RequestGuards)) = 1
  <2>1. Keep(attached', RequestGuards) = Append(Keep(d, RequestGuards), g)
    BY <1>8, <1>9
  <2>2. Keep(d, RequestGuards) \in Seq(KnownGuards' \cap RequestGuards)
    BY <1>7, KeepIsSeq
  <2>3. QED
    BY <1>7, <1>8, <2>1, <2>2
<1>13. attached' \in Seq(KnownGuards') /\ Len(attached') = Len(d) + 1
  BY <1>1, <1>7, <1>8, SMTT(30)
<1>14. Len(attached') = Len(guard_stack) + Cardinality(guard_map) + 1
  <2>1. Len(attached) = Len(guard_stack) + Cardinality(guard_map)
                        + (IF request_id # 0 THEN 1 ELSE 0)
    BY DEF GuardShape
  <2>2. QED
    BY <1>2, <1>5, <1>7, <1>13, <2>1
<1>15. StackGuards(ctx_of', guard_stack) = StackGuards(ctx_of, guard_stack)
  <2>1. \A i \in 1 .. Len(guard_stack) : ctx_of'[guard_stack[i]] = ctx_of[guard_stack[i]]
    BY <1>2, <1>3 DEF Known
  <2>2. QED
    BY <2>1 DEF StackGuards
<1>16. QED
  BY <1>1, <1>3, <1>11, <1>12, <1>13, <1>14, <1>15 DEF GuardShape

\* RSHUTDOWN drops every guard there is.
LEMMA ShutdownGuards ==
  ASSUME IndInv, GuardShape, RequestShutdown
  PROVE  GuardShape' /\ attached' = <<>>
<1> DEFINE left == {g \in Range(attached) : ~Released(g)}
<1>1. ~(request_id # 0 /\ ~Stored(request_id))
  BY DEF IndInv, RootApart, Stored
<1>2. /\ request_id' = 0 /\ guard_stack' = <<>> /\ guard_map' = {} /\ ctx_of' = ctx_of
      /\ attached' = Keep(attached, left)
  BY <1>1 DEF RequestShutdown
<1>3. attached \in Seq(KnownGuards) /\ KnownGuards \subseteq Guards
  BY GuardKinds DEF GuardShape
<1>4. ASSUME NEW i \in 1 .. Len(attached) PROVE Released(attached[i])
  <2> DEFINE g == attached[i]
  <2>1. g \in Guards
    BY <1>3
  <2>2. CASE g \in ScopeGuards
    <3> DEFINE s == Keep(attached, ScopeGuards)
    <3>1. s \in Seq(KnownGuards \cap ScopeGuards)
      BY <1>3, KeepIsSeq
    <3>2. Keep(s, {g}) = Keep(attached, {g})
      BY <1>3, <2>2, KeepNarrower
    <3>3. Len(Keep(attached, {g})) > 0
      BY <1>3, KeepSomething
    <3> HIDE DEF s
    <3>4. \E j \in 1 .. Len(s) : s[j] \in {g}
      BY <3>1, <3>2, <3>3, KeepSomething
    <3>5. s = StackGuards(ctx_of, guard_stack)
      BY DEF s, GuardShape
    <3>6. /\ Len(s) = Len(guard_stack)
          /\ \A j \in 1 .. Len(guard_stack) : s[j].key = guard_stack[j]
      <4>1. Len(s) = Len(guard_stack)
        BY <3>5, GuardSizes, StackGuardsSeq
      <4>2. \A j \in 1 .. Len(guard_stack) : s[j].key = guard_stack[j]
        BY <3>5 DEF StackGuards, Guard
      <4>3. QED
        BY <4>1, <4>2
    <3>7. g.key \in IdsOn(guard_stack)
      BY <3>4, <3>6 DEF IdsOn
    <3>8. QED
      BY <2>1, <2>2, <3>7, GuardFields DEF Released
  <2>3. CASE g \in HookGuards
    <3>1. g.key \in Frames /\ g \in HookGuardsOf(g.key) /\ g.by = "hook"
      BY <2>1, <2>3, GuardFields
    <3>2. Len(Keep(attached, HookGuardsOf(g.key))) > 0
      BY <1>3, <3>1, KeepSomething
    <3>3. Len(Keep(attached, HookGuardsOf(g.key))) = IF g.key \in guard_map THEN 1 ELSE 0
      BY <3>1 DEF GuardShape
    <3>4. g.key \in guard_map
      BY <3>2, <3>3
    <3>5. QED
      BY <3>1, <3>4 DEF Released
  <2>4. CASE g \in RequestGuards
    <3>1. Len(Keep(attached, RequestGuards)) > 0
      BY <1>3, <2>4, KeepSomething
    <3>2. request_id # 0
      BY <3>1 DEF GuardShape
    <3>3. QED
      BY <2>1, <2>4, <3>2, GuardFields DEF Released
  <2>5. QED
    BY <2>1, <2>2, <2>3, <2>4 DEF Guards
<1>5. attached' = <<>>
  <2>1. \A i \in 1 .. Len(attached) : attached[i] \notin left
    BY <1>4
  <2> HIDE DEF left
  <2>2. ~(Len(Keep(attached, left)) > 0)
    BY <1>3, <2>1, KeepSomething
  <2>3. Keep(attached, left) \in Seq(KnownGuards \cap left)
    BY <1>3, KeepIsSeq
  <2>4. Keep(attached, left) = <<>>
    BY <2>2, <2>3, EmptySeq
  <2>5. QED
    BY <1>2, <2>4
<1>6. \A S : Keep(attached', S) = <<>>
  BY <1>5, KeepEmpty
<1>7. StackGuards(ctx_of', guard_stack') = <<>>
  BY <1>2 DEF StackGuards
<1>8. IsFiniteSet({}) /\ Cardinality({}) = 0
  BY FS_EmptySet
<1>9. attached' \in Seq(KnownGuards') /\ Len(attached') = 0 /\ Len(guard_stack') = 0
      /\ \A S : Len(Keep(attached', S)) = 0
  BY <1>2, <1>5, <1>6
<1>10. QED
  BY <1>2, <1>5, <1>6, <1>7, <1>8, <1>9 DEF GuardShape

-----------------------------------------------------------------------------
(* Requests.                                                                *)

FullInv == IndInv /\ GuardShape /\ ValueTypes /\ CleanBetweenRequests /\ LocalRootIsThisRequest

\* What is current carries a span that was given out.
LEMMA CurrentKnown ==
  ASSUME IndInv, GuardShape, ValueTypes
  PROVE  CurrentContext \in Contexts
<1>1. CASE Active # <<>>
  <2>1. Known(Active, Len(ctx_of)) /\ Len(ctx_of) \in Nat
    BY ActiveKnown DEF IndInv, IdTypes
  <2>2. Last(Active) \in Ids
    BY <1>1, <2>1, KnownPop DEF Ids
  <2>3. QED
    BY <1>1, <2>2 DEF CurrentContext, ValueTypes
<1>2. CASE Active = <<>> /\ attached = <<>>
  BY <1>2 DEF CurrentContext, RustCurrent, Contexts
<1>3. CASE Active = <<>> /\ attached # <<>>
  <2>1. Last(attached) \in KnownGuards
    <3>1. attached \in Seq(KnownGuards) /\ Len(attached) \in Nat \ {0}
      BY <1>3, EmptySeq DEF GuardShape
    <3>2. QED
      BY <3>1 DEF Last
  <2>2. QED
    BY <1>3, <2>1 DEF CurrentContext, RustCurrent, KnownGuards
<1>4. QED
  BY <1>1, <1>2, <1>3

\* A new id is given to a context that carries a known span.
LEMMA IdsGrow ==
  ASSUME IndInv, ValueTypes, NEW c, ctx_of' = Append(ctx_of, c), c \in Contexts',
         ctx_of' \in Seq(Int)
  PROVE  /\ Len(ctx_of) \in Nat /\ Len(ctx_of') = Len(ctx_of) + 1
         /\ Ids \subseteq Ids' /\ Len(ctx_of) + 1 \in Ids' /\ Contexts \subseteq Contexts'
         /\ ctx_of'[Len(ctx_of) + 1] = c
         /\ \A i \in 1 .. Len(ctx_of) : ctx_of'[i] = ctx_of[i]
         /\ \A id \in Ids' : ctx_of'[id] \in Contexts'
<1>1. ctx_of \in Seq(Int) /\ Len(ctx_of) \in Nat
  BY DEF IndInv, IdTypes
<1>2. /\ Len(ctx_of') = Len(ctx_of) + 1 /\ ctx_of'[Len(ctx_of) + 1] = c
      /\ \A i \in 1 .. Len(ctx_of) : ctx_of'[i] = ctx_of[i]
  BY <1>1
<1>3. Ids \subseteq Ids' /\ Len(ctx_of) + 1 \in Ids'
      /\ \A id \in Ids' : id \in Ids \/ id = Len(ctx_of) + 1
  BY <1>1, <1>2 DEF Ids
<1>4. Contexts \subseteq Contexts'
  BY <1>1, <1>2, KnownGuardsGrow
<1>5. \A id \in Ids : ctx_of'[id] \in Contexts'
  BY <1>2, <1>4 DEF ValueTypes, Ids
<1>6. QED
  BY <1>1, <1>2, <1>3, <1>4, <1>5

\* Steps that give out no id and change none of the values but these.
LEMMA FrameValues ==
  ASSUME ValueTypes, ctx_of' = ctx_of, context_storage' \subseteq Ids,
         detached_storage' \subseteq Ids, guard_map' \subseteq Frames,
         local_root' \in {0, local_root}, Len(ctx_of) \in Nat, recording' \subseteq recording,
         phase' \in {"idle", "running"}, requests' \in Nat, panicked' \in BOOLEAN,
         held' \subseteq Contexts
  PROVE  ValueTypes'
<1>1. Ids' = Ids /\ Contexts' = Contexts
  BY DEF Ids, Contexts, NoSpan, PassiveSpan, HookSpan
<1>2. local_root' \in 0 .. Len(ctx_of)
  BY DEF ValueTypes
<1>3. QED
  BY <1>1, <1>2 DEF ValueTypes

\* attach_context leaves the values alone but for the table.
LEMMA AttachValues ==
  ASSUME ValueTypes, NEW id, NEW ctx, AttachId(id, ctx), context_storage' \subseteq Ids',
         Ids \subseteq Ids', Contexts \subseteq Contexts', Len(ctx_of) \in Nat,
         Len(ctx_of') \in Nat, Len(ctx_of) <= Len(ctx_of'),
         \A i \in Ids' : ctx_of'[i] \in Contexts'
  PROVE  ValueTypes'
<1>1. UNCHANGED <<detached_storage, guard_map, local_root, recording, held, phase, requests,
                  panicked>>
  BY DEF AttachId, requestVars, phaseVars
<1>2. local_root' \in 0 .. Len(ctx_of')
  BY <1>1 DEF ValueTypes
<1>3. QED
  BY <1>1, <1>2 DEF ValueTypes

\* Context::activate gives a new id to the context that it attaches.
LEMMA ActivateFull ==
  ASSUME IndInv, GuardShape, ValueTypes, NEW ctx \in Contexts, Activate(ctx)
  PROVE  GuardShape' /\ ValueTypes'
<1>1. ctx_of \in Seq(Int) /\ Len(ctx_of) \in Nat
  BY DEF IndInv, IdTypes
<1>2. ctx \in Int
  BY <1>1 DEF Contexts, Ids, NoSpan, PassiveSpan, HookSpan
<1>3. /\ ctx_of' = Append(ctx_of, ctx)
      /\ context_storage' = context_storage \cup {Len(ctx_of) + 1}
      /\ AttachId(Len(ctx_of) + 1, ctx)
  BY DEF Activate, NextId
<1>4. ctx_of' \in Seq(Int) /\ Len(ctx_of') = Len(ctx_of) + 1
  BY <1>1, <1>2, <1>3
<1>5. ctx \in Contexts'
  BY <1>1, <1>4, KnownGuardsGrow
<1>6. /\ Ids \subseteq Ids' /\ Len(ctx_of) + 1 \in Ids' /\ Contexts \subseteq Contexts'
      /\ ctx_of'[Len(ctx_of) + 1] = ctx
      /\ \A i \in 1 .. Len(ctx_of) : ctx_of'[i] = ctx_of[i]
      /\ \A id \in Ids' : ctx_of'[id] \in Contexts'
  BY <1>3, <1>4, <1>5, IdsGrow
<1>7. GuardShape'
  BY <1>1, <1>3, <1>4, <1>5, <1>6, AttachGuards
<1>8. context_storage' \subseteq Ids'
  BY <1>3, <1>6 DEF ValueTypes
<1>9. Len(ctx_of') \in Nat /\ Len(ctx_of) <= Len(ctx_of')
  BY <1>1, <1>4
<1>10. ValueTypes'
  BY <1>1, <1>3, <1>6, <1>8, <1>9, AttachValues
<1>11. QED
  BY <1>7, <1>10

\* Storage::attach with an id attaches what the id was given to, under that or a new id.
LEMMA AgainFull ==
  ASSUME IndInv, GuardShape, ValueTypes, NEW id \in Ids, AttachAgain(id)
  PROVE  GuardShape' /\ ValueTypes'
<1> DEFINE ctx == ctx_of[id]
<1>1. /\ ctx_of \in Seq(Int) /\ Len(ctx_of) \in Nat /\ ctx \in Contexts /\ ctx \in Int
      /\ id \in 1 .. Len(ctx_of)
  BY DEF IndInv, IdTypes, ValueTypes, Ids
<1>2. CASE Stored(id)
  <2>1. AttachId(id, ctx) /\ UNCHANGED <<ctx_of, context_storage>>
    BY <1>2 DEF AttachAgain
  <2>2. Ids' = Ids /\ Contexts' = Contexts
    BY <2>1 DEF Ids, Contexts, NoSpan, PassiveSpan, HookSpan
  <2>3. GuardShape'
    BY <1>1, <2>1, <2>2, AttachGuards
  <2>4. context_storage' \subseteq Ids' /\ \A i \in Ids' : ctx_of'[i] \in Contexts'
    BY <2>1, <2>2 DEF ValueTypes
  <2>5. ValueTypes'
    BY <1>1, <2>1, <2>2, <2>4, AttachValues
  <2>6. QED
    BY <2>3, <2>5
<1>3. CASE ~Stored(id)
  <2>1. /\ ctx_of' = Append(ctx_of, ctx)
        /\ context_storage' = context_storage \cup {Len(ctx_of) + 1}
        /\ AttachId(Len(ctx_of) + 1, ctx)
    BY <1>3 DEF AttachAgain, NextId
  <2> HIDE DEF ctx
  <2>2. ctx_of' \in Seq(Int) /\ Len(ctx_of') = Len(ctx_of) + 1
    BY <1>1, <2>1
  <2>3. ctx \in Contexts'
    BY <1>1, <2>2, KnownGuardsGrow
  <2>4. /\ Ids \subseteq Ids' /\ Len(ctx_of) + 1 \in Ids' /\ Contexts \subseteq Contexts'
        /\ ctx_of'[Len(ctx_of) + 1] = ctx
        /\ \A i \in 1 .. Len(ctx_of) : ctx_of'[i] = ctx_of[i]
        /\ \A i \in Ids' : ctx_of'[i] \in Contexts'
    BY <2>1, <2>2, <2>3, IdsGrow
  <2>5. GuardShape'
    BY <1>1, <2>1, <2>2, <2>3, <2>4, AttachGuards, SMTT(30)
  <2>6. context_storage' \subseteq Ids'
    BY <2>1, <2>4 DEF ValueTypes
  <2>7. Len(ctx_of') \in Nat /\ Len(ctx_of) <= Len(ctx_of')
    BY <1>1, <2>2
  <2>8. ValueTypes'
    BY <1>1, <2>1, <2>4, <2>6, <2>7, AttachValues
  <2>9. QED
    BY <2>5, <2>8
<1>4. QED
  BY <1>2, <1>3

\* RINIT gives an id to the root context.
LEMMA RootValues ==
  ASSUME IndInv, ValueTypes, NEW sampled \in BOOLEAN, RequestInitRoot(sampled)
  PROVE  ValueTypes'
<1> DEFINE n == Len(ctx_of) + 1
<1>1. /\ ctx_of' = Append(ctx_of, n) /\ context_storage' = context_storage \cup {n}
      /\ recording' \subseteq recording \cup {n} /\ local_root' \in {local_root, n}
      /\ phase' = "running" /\ requests' = requests + 1
      /\ UNCHANGED <<detached_storage, guard_map, held, panicked>>
  BY DEF RequestInitRoot, NextId, phpVars
<1>2. ctx_of \in Seq(Int) /\ Len(ctx_of) \in Nat
  BY DEF IndInv, IdTypes
<1>3. ctx_of' \in Seq(Int) /\ Len(ctx_of') = n /\ n \in Nat
  BY <1>1, <1>2
<1>4. n \in Contexts'
  BY <1>3 DEF Contexts, Ids
<1> HIDE DEF n
<1>5. /\ Ids \subseteq Ids' /\ n \in Ids' /\ Contexts \subseteq Contexts'
      /\ \A id \in Ids' : ctx_of'[id] \in Contexts'
  BY <1>1, <1>3, <1>4, IdsGrow DEF n
<1>6. local_root' \in 0 .. Len(ctx_of')
  BY <1>1, <1>2, <1>3 DEF ValueTypes, n
<1>7. requests' \in Nat
  BY <1>1 DEF ValueTypes
<1>8. /\ context_storage' \subseteq Ids' /\ detached_storage' \subseteq Ids'
      /\ recording' \subseteq Ids' /\ held' \subseteq Contexts'
  BY <1>1, <1>5 DEF ValueTypes
<1>9. guard_map' \subseteq Frames /\ panicked' \in BOOLEAN /\ phase' \in {"idle", "running"}
  BY <1>1 DEF ValueTypes
<1>10. QED
  BY <1>5, <1>6, <1>7, <1>8, <1>9 DEF ValueTypes

\* Calls within a request that leave its root and its local root alone.
LEMMA WithinRequest ==
  ASSUME LocalRootIsThisRequest, phase = "running",
         UNCHANGED <<phase, panicked, request_id, local_root>>
  PROVE  CleanBetweenRequests' /\ LocalRootIsThisRequest'
BY DEF CleanBetweenRequests, LocalRootIsThisRequest

\* Every call and every end of a request keeps the full invariant.
LEMMA FullStep ==
  ASSUME FullInv, [Next]_vars
  PROVE  FullInv'
<1>1. IndInv /\ GuardShape /\ ValueTypes /\ CleanBetweenRequests /\ LocalRootIsThisRequest
  BY DEF FullInv
<1>2. IndInv'
  BY <1>1, InductiveStep
<1>3. Len(ctx_of) \in Nat
  BY <1>1 DEF IndInv, IdTypes
<1>4. SUFFICES GuardShape' /\ ValueTypes' /\ CleanBetweenRequests' /\ LocalRootIsThisRequest'
  BY <1>2 DEF FullInv
<1>5. CASE UNCHANGED vars
  <2>1. UNCHANGED <<ctx_of, context_storage, detached_storage, guard_stack, main_stack,
                    fork_stacks, current_execution, guard_map, attached, local_root, request_id,
                    recording, held, phase, requests, panicked>>
    BY <1>5 DEF vars, tableVars, stackVars, requestVars, phpVars, phaseVars
  <2>2. GuardShape'
    BY <1>1, <2>1, FrameGuards
  <2>3. ValueTypes'
    BY <1>1, <1>3, <2>1, FrameValues DEF ValueTypes
  <2>4. QED
    BY <1>1, <2>1, <2>2, <2>3 DEF CleanBetweenRequests, LocalRootIsThisRequest
<1>6. CASE RequestInitPlain
  <2>1. /\ UNCHANGED <<ctx_of, context_storage, detached_storage, guard_stack, guard_map,
                       attached, local_root, request_id, recording, held, panicked>>
        /\ phase = "idle" /\ phase' = "running" /\ requests' = requests + 1
    BY <1>6 DEF RequestInitPlain, tableVars, requestVars, phpVars
  <2>2. requests' \in Nat
    BY <1>1, <2>1 DEF ValueTypes
  <2>3. ValueTypes'
    BY <1>1, <1>3, <2>1, <2>2, FrameValues DEF ValueTypes
  <2>4. QED
    BY <1>1, <2>1, <2>3, FrameGuards DEF CleanBetweenRequests, LocalRootIsThisRequest
<1>7. CASE \E sampled \in BOOLEAN : RequestInitRoot(sampled)
  <2>1. PICK sampled \in BOOLEAN : RequestInitRoot(sampled)
    BY <1>7
  <2>2. GuardShape' /\ ValueTypes'
    BY <1>1, <2>1, RootGuards, RootValues
  <2>3. /\ phase = "idle" /\ phase' = "running" /\ panicked' = panicked
        /\ request_id' = NextId /\ local_root' = IF RustCurrent = NoSpan THEN NextId ELSE local_root
    BY <2>1 DEF RequestInitRoot
  <2>4. ~panicked => RustCurrent = NoSpan
    BY <1>1, <2>3 DEF CleanBetweenRequests, RustCurrent
  <2>5. QED
    BY <2>2, <2>3, <2>4 DEF CleanBetweenRequests, LocalRootIsThisRequest
<1>8. CASE RequestShutdown
  <2>1. GuardShape' /\ attached' = <<>>
    BY <1>1, <1>8, ShutdownGuards
  <2>2. ~(request_id # 0 /\ ~Stored(request_id))
    BY <1>1 DEF IndInv, RootApart, Stored
  <2>3. /\ request_id' = 0 /\ local_root' = 0 /\ guard_stack' = <<>> /\ main_stack' = <<>>
        /\ fork_stacks' = [e \in {} |-> <<>>] /\ current_execution' = Main
        /\ context_storage' = {} /\ detached_storage' = {} /\ guard_map' = {}
        /\ recording' = recording \ {request_id} /\ held' = {} /\ phase' = "idle"
        /\ panicked' = FALSE /\ ctx_of' = ctx_of /\ requests' = requests
    BY <1>8, <2>2 DEF RequestShutdown
  <2>4. ValueTypes'
    BY <1>1, <1>3, <2>3, FrameValues DEF ValueTypes
  <2>5. DOMAIN fork_stacks' = {}
    BY <2>3
  <2>6. QED
    BY <2>1, <2>3, <2>4, <2>5 DEF CleanBetweenRequests, LocalRootIsThisRequest
<1>9. CASE RequestShutdownPanics
  <2>1. /\ UNCHANGED <<ctx_of, context_storage, detached_storage, guard_stack, guard_map,
                       attached, local_root, request_id, recording, requests>>
        /\ phase' = "idle" /\ panicked' = TRUE /\ held' = {}
    BY <1>9 DEF RequestShutdownPanics, tableVars, requestVars
  <2>2. ValueTypes'
    BY <1>1, <1>3, <2>1, FrameValues DEF ValueTypes
  <2>3. QED
    BY <1>1, <2>1, <2>2, FrameGuards DEF CleanBetweenRequests, LocalRootIsThisRequest
<1>10. CASE Capture
  <2>1. /\ UNCHANGED <<ctx_of, context_storage, detached_storage, guard_stack, guard_map,
                       attached, local_root, request_id, recording, phase, requests, panicked>>
        /\ phase = "running" /\ held' = held \cup {CurrentContext}
    BY <1>10 DEF Capture, Running, tableVars, requestVars, phaseVars
  <2>2. held' \subseteq Contexts
    BY <1>1, <2>1, CurrentKnown DEF ValueTypes
  <2>3. ValueTypes'
    BY <1>1, <1>3, <2>1, <2>2, FrameValues DEF ValueTypes
  <2>4. QED
    BY <1>1, <2>1, <2>3, FrameGuards, WithinRequest
<1>11. CASE \E ctx \in Contexts : Activate(ctx)
  <2>1. UNCHANGED <<phase, panicked, request_id, local_root>> /\ phase = "running"
    BY <1>11 DEF Activate, AttachId, Running, requestVars, phaseVars
  <2>2. QED
    BY <1>1, <1>11, <2>1, ActivateFull, WithinRequest
<1>12. CASE \E id \in Ids : AttachAgain(id)
  <2>1. UNCHANGED <<phase, panicked, request_id, local_root>> /\ phase = "running"
    BY <1>12 DEF AttachAgain, AttachId, Running, requestVars, phaseVars
  <2>2. QED
    BY <1>1, <1>12, <2>1, AgainFull, WithinRequest
<1>13. CASE StorageScope
  <2>1. /\ UNCHANGED <<ctx_of, context_storage, detached_storage, guard_stack, guard_map, held,
                       attached, local_root, request_id, recording, phase, requests, panicked>>
        /\ phase = "running"
    BY <1>13 DEF StorageScope, Running, tableVars, requestVars, phaseVars
  <2>2. ValueTypes'
    BY <1>1, <1>3, <2>1, FrameValues DEF ValueTypes
  <2>3. QED
    BY <1>1, <2>1, <2>2, FrameGuards, WithinRequest
<1>14. CASE \E k \in 1 .. Len(scopes) : Detach(k)
  <2>1. PICK k \in 1 .. Len(scopes) : Detach(k)
    BY <1>14
  <2> DEFINE id == scopes[k].id
  <2>2. GuardShape'
    BY <1>1, <2>1, DetachGuards
  <2>3. /\ UNCHANGED <<ctx_of, guard_map, held, request_id, recording, phase, requests, panicked>>
        /\ phase = "running" /\ context_storage' = context_storage \ {id}
        /\ detached_storage' \in {detached_storage, detached_storage \cup {id}}
        /\ local_root' = IF id = local_root THEN 0 ELSE local_root
    BY <2>1 DEF Detach, Running, phaseVars
  <2>4. id \in Ids /\ (request_id # 0 => id # request_id)
    BY <1>1, <2>1 DEF IndInv, IdTypes, RootApart
  <2>5. ValueTypes'
    BY <1>1, <1>3, <2>3, <2>4, FrameValues DEF ValueTypes
  <2>6. QED
    BY <1>1, <2>2, <2>3, <2>4, <2>5 DEF CleanBetweenRequests, LocalRootIsThisRequest
<1>15. CASE \E e \in Executions : Fork(e) \/ Destroy(e)
  <2>1. /\ UNCHANGED <<ctx_of, context_storage, detached_storage, guard_stack, guard_map, held,
                       attached, local_root, request_id, recording, phase, requests, panicked>>
        /\ phase = "running"
    BY <1>15 DEF Fork, Destroy, Running, tableVars, requestVars, phaseVars, phpVars
  <2>2. ValueTypes'
    BY <1>1, <1>3, <2>1, FrameValues DEF ValueTypes
  <2>3. QED
    BY <1>1, <2>1, <2>2, FrameGuards, WithinRequest
<1>16. CASE \E x \in Executions \cup {Main} : Switch(x)
  <2>1. /\ UNCHANGED <<ctx_of, context_storage, detached_storage, guard_map, held, local_root,
                       request_id, recording, phase, requests, panicked>>
        /\ phase = "running"
    BY <1>16 DEF Switch, Running, tableVars, requestVars, phaseVars, phpVars
  <2>2. ValueTypes'
    BY <1>1, <1>3, <2>1, FrameValues DEF ValueTypes
  <2>3. GuardShape'
    BY <1>1, <1>16, SwitchGuards DEF ValueTypes
  <2>4. QED
    BY <1>1, <2>1, <2>2, <2>3, WithinRequest
<1>17. CASE \E f \in Frames : PostHook(f) \/ \E ctx \in {HookSpan, PassiveSpan} : PreHook(f, ctx)
  <2>1. /\ UNCHANGED <<ctx_of, context_storage, detached_storage, held, local_root,
                       request_id, recording, phase, requests, panicked>>
        /\ phase = "running"
    BY <1>17 DEF PreHook, PostHook, Running, tableVars, requestVars, phaseVars, phpVars
  <2>2. guard_map' \subseteq Frames
    BY <1>1, <1>17 DEF PreHook, PostHook, ValueTypes
  <2>3. ValueTypes'
    BY <1>1, <1>3, <2>1, <2>2, FrameValues DEF ValueTypes
  <2>4. GuardShape'
    BY <1>1, <1>17, PreHookGuards, PostHookGuards
  <2>5. QED
    BY <1>1, <2>1, <2>3, <2>4, WithinRequest
<1>18. CASE EndLocalRoot
  <2>1. /\ UNCHANGED <<ctx_of, context_storage, detached_storage, guard_stack, guard_map, held,
                       attached, local_root, request_id, phase, requests, panicked>>
        /\ phase = "running" /\ recording' = recording \ {local_root}
    BY <1>18 DEF EndLocalRoot, Running, tableVars, phaseVars, phpVars
  <2>2. ValueTypes'
    BY <1>1, <1>3, <2>1, FrameValues DEF ValueTypes
  <2>3. QED
    BY <1>1, <2>1, <2>2, FrameGuards, WithinRequest
<1>19. QED
  BY <1>5, <1>6, <1>7, <1>8, <1>9, <1>10, <1>11, <1>12, <1>13, <1>14, <1>15, <1>16, <1>17,
     <1>18 DEF Next

\* At the start nothing is attached and no id was given out.
LEMMA FullInit ==
  ASSUME Init
  PROVE  FullInv
<1>1. IndInv
  BY DEF Init, IndInv, IdTypes, Known, StacksAgree, Active, StackOf, RootApart
<1>2. GuardShape
  <2>1. attached = <<>> /\ guard_stack = <<>> /\ guard_map = {} /\ request_id = 0
    BY DEF Init
  <2>2. \A S : Keep(attached, S) = <<>> /\ Len(Keep(attached, S)) = 0
    BY <2>1, KeepEmpty
  <2>3. StackGuards(ctx_of, guard_stack) = <<>>
    BY <2>1 DEF StackGuards
  <2>4. IsFiniteSet({}) /\ Cardinality({}) = 0
    BY FS_EmptySet
  <2>5. attached \in Seq(KnownGuards) /\ Len(attached) = 0 /\ Len(guard_stack) = 0
    BY <2>1
  <2>6. QED
    BY <2>1, <2>2, <2>3, <2>4, <2>5 DEF GuardShape
<1>3. ValueTypes
  <2>1. Ids = {} /\ Len(ctx_of) = 0
    BY DEF Init, Ids
  <2>2. /\ context_storage = {} /\ detached_storage = {} /\ guard_map = {} /\ recording = {}
        /\ held = {} /\ local_root = 0 /\ phase = "idle" /\ requests = 0 /\ panicked = FALSE
    BY DEF Init
  <2>3. local_root \in 0 .. Len(ctx_of) /\ requests \in Nat
    BY <2>1, <2>2
  <2>4. panicked \in BOOLEAN /\ phase \in {"idle", "running"}
    BY <2>2
  <2>5. /\ \A id \in Ids : ctx_of[id] \in Contexts
        /\ context_storage \subseteq Ids /\ detached_storage \subseteq Ids
        /\ guard_map \subseteq Frames /\ recording \subseteq Ids /\ held \subseteq Contexts
    BY <2>1, <2>2
  <2>6. QED
    BY <2>3, <2>4, <2>5 DEF ValueTypes
<1>4. CleanBetweenRequests /\ LocalRootIsThisRequest
  BY DEF Init, CleanBetweenRequests, LocalRootIsThisRequest
<1>5. QED
  BY <1>1, <1>2, <1>3, <1>4 DEF FullInv

\* The stacks, the guards and the request's state fit together, always.
THEOREM FullInvariance == Spec => []FullInv
<1>1. Init => FullInv
  BY FullInit
<1>2. FullInv /\ [Next]_vars => FullInv'
  BY FullStep
<1>3. QED
  BY <1>1, <1>2, PTL DEF Spec

\* The SDK's context stack holds the scopes of GUARD_STACK in their order, a guard for
\* each hooked function that is open and the request's, whatever order scopes,
\* executions, hooks and requests begin and end in.
THEOREM SdkFollowsPhp == Spec => []RustFollowsPhp
<1>1. FullInv => RustFollowsPhp
  <2>1. SUFFICES ASSUME FullInv PROVE RustFollowsPhp
    OBVIOUS
  <2>2. GuardShape
    BY <2>1 DEF FullInv
  <2>3. attached \in Seq(KnownGuards) /\ KnownGuards \subseteq Guards /\ guard_map \subseteq Frames
    BY <2>2, GuardKinds DEF GuardShape
  <2>4. StackGuards(ctx_of, guard_stack)
          = [i \in 1 .. Len(guard_stack) |-> ScopeGuard(guard_stack[i])]
    BY DEF StackGuards, ScopeGuard
  <2>5. \A f \in Frames : f \in guard_map <=>
          \E i \in 1 .. Len(attached) : attached[i] \in HookGuardsOf(f)
    <3>1. SUFFICES ASSUME NEW f \in Frames
                   PROVE  f \in guard_map <=>
                            \E i \in 1 .. Len(attached) : attached[i] \in HookGuardsOf(f)
      OBVIOUS
    <3>2. Len(Keep(attached, HookGuardsOf(f))) = IF f \in guard_map THEN 1 ELSE 0
      BY <2>2 DEF GuardShape
    <3>3. (\E i \in 1 .. Len(attached) : attached[i] \in HookGuardsOf(f))
            <=> Len(Keep(attached, HookGuardsOf(f))) > 0
      BY <2>3, KeepSomething
    <3>4. QED
      BY <3>2, <3>3
  <2>6. \A i \in 1 .. Len(attached) : attached[i] \in Guards
    BY <2>3
  <2>7. \A i \in 1 .. Len(attached) : attached[i].by = "hook" =>
          attached[i].key \in Frames /\ attached[i] \in HookGuardsOf(attached[i].key)
    BY <2>6, GuardFields
  <2>8. \A i \in 1 .. Len(attached) : \A f \in Frames : attached[i] \in HookGuardsOf(f) =>
          attached[i].by = "hook" /\ attached[i].key = f
    BY <2>6, GuardFields
  <2> DEFINE hooks == {attached[i] : i \in {j \in 1 .. Len(attached) : attached[j].by = "hook"}}
  <2>9. \A g \in hooks : g.key \in guard_map
    BY <2>5, <2>7
  <2>10. \A f \in guard_map : \E g \in hooks : g.key = f
    BY <2>3, <2>5, <2>8
  <2>11. {g.key : g \in hooks} = guard_map
    BY <2>9, <2>10
  <2>12. QED
    BY <2>2, <2>4, <2>11 DEF GuardShape, RustFollowsPhp
<1>2. QED
  BY <1>1, FullInvariance, PTL

\* Requests are isolated: RSHUTDOWN always gets past its early return and then leaves
\* nothing behind, so that the next request starts on an empty SDK stack and its root
\* span becomes its local root.
THEOREM RequestIsolation == Spec => []RequestsIsolated
<1>1. FullInv => RequestsIsolated
  BY DEF FullInv, IndInv, RequestsIsolated, TypeOK
<1>2. QED
  BY <1>1, FullInvariance, PTL

\* A call in one execution leaves the stacks of the others alone.
THEOREM ForkIsolation == Spec => ForksIsolated
<1>1. IndInv /\ [Next]_vars => [OnlyActiveChanges]_vars
  <2>1. SUFFICES ASSUME IndInv, Next, phase = "running", phase' = "running"
                 PROVE  /\ main_stack' = main_stack \/ current_execution = Main
                        /\ \A e \in DOMAIN fork_stacks \cap DOMAIN fork_stacks' :
                             \/ fork_stacks'[e] = fork_stacks[e]
                             \/ e = current_execution
                             \/ fork_stacks'[e] = Active
    BY DEF OnlyActiveChanges
  <2>2. CASE UNCHANGED <<main_stack, fork_stacks>>
    BY <2>2
  <2>3. CASE \E stack : SetActive(stack)
    BY <2>3 DEF SetActive, IndInv, IdTypes
  <2>4. CASE \E e \in Executions : Fork(e) \/ Destroy(e)
    BY <2>4 DEF Fork, Destroy
  <2>5. CASE (\E ctx \in Contexts : Activate(ctx)) \/ (\E id \in Ids : AttachAgain(id))
    BY <2>3, <2>5 DEF Activate, AttachAgain, AttachId
  <2>6. CASE \E k \in 1 .. Len(scopes) : Detach(k)
    BY <2>2, <2>3, <2>6 DEF Detach
  <2>7. CASE \E x \in Executions \cup {Main} : Switch(x)
    BY <2>2, <2>7 DEF Switch
  <2>8. CASE \E f \in Frames : PostHook(f) \/ \E ctx \in {HookSpan, PassiveSpan} : PreHook(f, ctx)
    BY <2>2, <2>8 DEF PostHook, PreHook, stackVars
  <2>9. CASE Capture \/ StorageScope \/ EndLocalRoot
    BY <2>2, <2>9 DEF Capture, StorageScope, EndLocalRoot, stackVars
  <2>10. CASE RequestInitPlain \/ (\E sampled \in BOOLEAN : RequestInitRoot(sampled))
              \/ RequestShutdown \/ RequestShutdownPanics
    BY <2>1, <2>10 DEF RequestInitPlain, RequestInitRoot, RequestShutdown, RequestShutdownPanics
  <2>11. QED
    BY <2>1, <2>4, <2>5, <2>6, <2>7, <2>8, <2>9, <2>10 DEF Next
<1>2. QED
  BY <1>1, Invariance, PTL DEF Spec, ForksIsolated
=============================================================================
