---------------------------- MODULE RecursiveIds ----------------------------
(***************************************************************************)
(* The depth-first walk that decides which reader schemas of a             *)
(* compatibility plan are compiled into callable blocks instead of being   *)
(* spliced inline: recursive_schema_ids / visit_schema in                  *)
(* rust/phon-engine/src/plan.rs (the TypeScript and Swift planners carry   *)
(* the same walk).  Every later pass that recurses over reader schemas     *)
(* (plan_ref, lower_canonical_node) terminates only because each reference *)
(* cycle is cut by one of the ids marked here.                             *)
(*                                                                         *)
(* One behaviour is one call on one schema graph.  A frame of the native   *)
(* call stack is an entry of `stack' together with the targets its loop    *)
(* has not looked at yet, `todo'; the loop's order is the declaration      *)
(* order of the references, which is arbitrary, so a step takes any        *)
(* remaining target.  A target listed twice is a no-op the second time,    *)
(* so the list is modelled as a set.                                       *)
(***************************************************************************)
EXTENDS Naturals, Sequences, FiniteSets

CONSTANTS
  Ids,       \* schema ids in the registry
  Root,      \* the reader root
  Generic,   \* ids of schemas with type parameters
  Shapes     \* the schema graphs considered: each maps an id to the ids its kind refers to

ASSUME IdsAssumption ==
  /\ IsFiniteSet(Ids)
  /\ Root \in Ids
  /\ Generic \subseteq Ids
  /\ Shapes \subseteq [Ids -> SUBSET Ids]

VARIABLES
  refs,      \* the registry: what each schema's kind refers to (never changes)
  visited, onStack, stack, recursive,   \* the four collections threaded through visit_schema
  todo,      \* per active call: targets its for-loop still has to look at
  rank,      \* history: the position at which an id's call returned, 0 before that
  clock,     \* history: how many calls have returned
  pc         \* "start" before the outermost call, "walk" during it, "done" after it

vars == <<refs, visited, onStack, stack, recursive, todo, rank, clock, pc>>

(* compact::resolve of the bare reference: a schema with parameters fails   *)
(* with an arity error, and the walk then treats it as having no targets.   *)
Targets(id) == IF id \in Generic THEN {} ELSE refs[id]

Top == stack[Len(stack)]

(* Mutants of DownTo: the loop breaks before it inserts the target; the     *)
(* loop never breaks.                                                       *)
DownTo_BreaksFirst(target) ==
  {stack[i] : i \in {j \in 1..Len(stack) : \E k \in 1..(j - 1) : stack[k] = target}}
DownTo_NeverBreaks(target) == {stack[i] : i \in 1..Len(stack)}

(* The `stack.iter().rev()' loop: the ids from the top down to `target'.    *)
DownTo(target) ==
  {stack[i] : i \in {j \in 1..Len(stack) : \E k \in 1..j : stack[k] = target}}

Init ==
  /\ refs \in Shapes
  /\ visited = {} /\ onStack = {} /\ stack = <<>> /\ recursive = {}
  /\ todo = [id \in Ids |-> {}]
  /\ rank = [id \in Ids |-> 0]
  /\ clock = 0
  /\ pc = "start"

(* The head of visit_schema(id): the three inserts and the resolved targets.*)
Enter(id) ==
  /\ visited' = visited \cup {id}
  /\ onStack' = onStack \cup {id}
  /\ stack' = Append(stack, id)

Start ==
  /\ pc = "start"
  /\ pc' = "walk"
  /\ Enter(Root)
  /\ todo' = [todo EXCEPT ![Root] = Targets(Root)]
  /\ UNCHANGED <<refs, recursive, rank, clock>>

(* Mutant of BackEdge: the loop's cursor is not moved past the target.      *)
BackEdge_SameTarget(t) ==
  /\ stack # <<>> /\ t \in todo[Top]
  /\ t \in onStack
  /\ recursive' = recursive \cup DownTo(t)
  /\ UNCHANGED <<refs, visited, onStack, stack, todo, rank, clock, pc>>

(* A target on the stack closes a cycle: everything from the top of the     *)
(* stack down to it is recursive.                                           *)
BackEdge(t) ==
  /\ stack # <<>> /\ t \in todo[Top]
  /\ t \in onStack
  /\ recursive' = recursive \cup DownTo(t)
  /\ todo' = [todo EXCEPT ![Top] = @ \ {t}]
  /\ UNCHANGED <<refs, visited, onStack, stack, rank, clock, pc>>

(* A target already visited and off the stack is passed over.               *)
PassOver(t) ==
  /\ stack # <<>> /\ t \in todo[Top]
  /\ t \notin onStack /\ t \in visited
  /\ todo' = [todo EXCEPT ![Top] = @ \ {t}]
  /\ UNCHANGED <<refs, visited, onStack, stack, recursive, rank, clock, pc>>

(* A new target is visited by a nested call.                                *)
Descend(t) ==
  /\ stack # <<>> /\ t \in todo[Top]
  /\ t \notin onStack /\ t \notin visited
  /\ Enter(t)
  /\ todo' = [todo EXCEPT ![Top] = @ \ {t}, ![t] = Targets(t)]
  /\ UNCHANGED <<refs, recursive, rank, clock, pc>>

(* Mutant of Return: on_stack.remove(&id) is forgotten.                     *)
Return_StaysOnStack ==
  /\ stack # <<>> /\ todo[Top] = {}
  /\ stack' = SubSeq(stack, 1, Len(stack) - 1)
  /\ rank' = [rank EXCEPT ![Top] = clock + 1]
  /\ clock' = clock + 1
  /\ pc' = IF Len(stack) = 1 THEN "done" ELSE pc
  /\ UNCHANGED <<refs, visited, onStack, recursive, todo>>

(* The loop is over: stack.pop(), on_stack.remove(&id), return.             *)
Return ==
  /\ stack # <<>> /\ todo[Top] = {}
  /\ onStack' = onStack \ {Top}
  /\ stack' = SubSeq(stack, 1, Len(stack) - 1)
  /\ rank' = [rank EXCEPT ![Top] = clock + 1]
  /\ clock' = clock + 1
  /\ pc' = IF Len(stack) = 1 THEN "done" ELSE pc
  /\ UNCHANGED <<refs, visited, recursive, todo>>

Next ==
  \/ Start
  \/ \E t \in Ids : BackEdge(t) \/ PassOver(t) \/ Descend(t)
  \/ Return

(* A call runs to completion: nothing else can preempt it.                  *)
Spec == Init /\ [][Next]_vars /\ WF_vars(Next)

-----------------------------------------------------------------------------
TypeOK ==
  /\ refs \in [Ids -> SUBSET Ids]
  /\ visited \subseteq Ids /\ onStack \subseteq visited /\ recursive \subseteq Ids
  /\ stack \in Seq(Ids)
  /\ todo \in [Ids -> SUBSET Ids]
  /\ rank \in [Ids -> Nat] /\ clock \in Nat
  /\ pc \in {"start", "walk", "done"}

Finished == visited \ onStack

(* The set and the sequence kept in step by hand (insert/remove beside      *)
(* push/pop) never drift apart, and no id is on the stack twice.            *)
StackAgrees ==
  /\ onStack = {stack[i] : i \in 1..Len(stack)}
  /\ \A i, j \in 1..Len(stack) : stack[i] = stack[j] => i = j

(* What makes inlining finite, step by step: once a call has returned,      *)
(* each of its targets is either a block or returned strictly earlier.      *)
InlineDescends ==
  \A u \in Finished : \A v \in Targets(u) :
    v \in recursive \/ (v \in Finished /\ rank[v] < rank[u])

(* The strengthening that makes InlineDescends inductive.                   *)
Ranked ==
  \A u \in Ids : IF u \in Finished THEN rank[u] \in 1..clock /\ todo[u] = {}
                                   ELSE rank[u] = 0

FrameProgress ==
  \A i \in 1..Len(stack) : \A v \in Targets(stack[i]) \ todo[stack[i]] :
    \/ v \in recursive
    \/ v \in Finished
    \/ i < Len(stack) /\ v = stack[i + 1]

(* The active calls follow references: each frame has only targets of its   *)
(* own schema left, and was entered from a reference of the frame below.    *)
StackIsPath ==
  /\ \A u \in Ids : todo[u] \subseteq Targets(u)
  /\ \A i \in 1..(Len(stack) - 1) : stack[i + 1] \in Targets(stack[i])

Phases ==
  /\ pc = "start" => visited = {}
  /\ pc = "done" => stack = <<>>

IInv == TypeOK /\ StackAgrees /\ InlineDescends /\ Ranked /\ FrameProgress /\ StackIsPath /\ Phases

(* plan_ref inlines a reader reference unless its id is marked.  A set of   *)
(* visited schemas each of which refers to another of the set holds a       *)
(* reference cycle; when the walk is over each such set contains a marked   *)
(* id, so no chain of inlined references goes on forever.                   *)
EveryCycleIsCut ==
  pc = "done" =>
    \A C \in SUBSET visited :
      (C # {} /\ \A u \in C : Targets(u) \cap C # {}) => C \cap recursive # {}

(* Conversely nothing is made a block without need: a marked id lies on a   *)
(* closed walk of references (a self-reference or a longer cycle).          *)
ClosedWalks == UNION {[1..n -> Ids] : n \in 1..Cardinality(Ids)}

OnlyCyclesAreCut ==
  \A r \in recursive : \E w \in ClosedWalks :
    LET n == Cardinality(DOMAIN w) IN
    /\ w[1] = r
    /\ \A i \in 1..(n - 1) : w[i + 1] \in Targets(w[i])
    /\ r \in Targets(w[n])

(* Whatever the graph, the walk comes back: visit_schema recurses on native *)
(* frames with no depth bound, so it must visit each schema at most once.   *)
WalkEnds == <>(pc = "done")

(* docs/content/spec.md r[ir.inlining]: lowering must call on every edge    *)
(* that re-enters a cycle, or the splice never terminates.  A schema with   *)
(* parameters is resolved without arguments by the walk, which then sees    *)
(* none of its references, so a cycle through it is not cut.                *)
GenericCyclesAreCut ==
  pc = "done" =>
    \A C \in SUBSET visited :
      (C # {} /\ \A u \in C : refs[u] \cap C # {}) => C \cap recursive # {}
=============================================================================
