------------------------------ MODULE TimTask ------------------------------
(***************************************************************************)
(* The timer tasks of drivers/kinetis/tim-task.c: tasks are linked into    *)
(* the list of their priority or into the list of suspended tasks, and     *)
(* tim_task_loop walks the priority lists and calls what is due.  The      *)
(* links are pointers, and the list functions are those of linux/list.h    *)
(* with CONFIG_DEBUG_LIST: an operation on a corrupt list warns and does   *)
(* nothing.                                                                *)
(*                                                                         *)
(* What callbacks and main loops do with the tasks is that of the callers  *)
(* in the repository: the stator, the hydrology station and, for the rest  *)
(* of the interface, the shell commands of the verification project.       *)
(***************************************************************************)
EXTENDS Integers, FiniteSets, FiniteSetsExt, SequencesExt

CONSTANTS
  Uses,    \* the callers, of "stator", "hydrology", "shell"
  Poison   \* LIST_POISON1 and LIST_POISON2

VARIABLES
  use,        \* which caller
  list,       \* links of the priority lists and the suspended list
  main_list,  \* links of the list of all tasks
  priority,
  expired,    \* tasks whose timeout is not in the future
  auto_load,  \* tasks that start again after they ran
  due,        \* the expired tasks when the pass read current_time_us
  level, cur, tmp,  \* the walk: priority, list cursor and saved next entry
  pc,         \* "main", "walk", or "astray": the cursor points at no task
  ran,        \* tasks called in this pass
  readded,    \* a task was added that was still linked
  tuned       \* the stator has added the tasks of STATOR_WAIT_ROTOR

lists == <<list, main_list, priority, auto_load>>
walk == <<due, level, cur, tmp, pc, ran>>
vars == <<use, lists, expired, walk, readded, tuned>>

Tasks == {"fake_pulse", "motor_sim", "pid", "heartbeat", "process_cmd",
          "collecte_data", "link_pkt", "example"}
Levels == 0..2
priority_heads[p \in Levels] == <<"head0", "head1", "head2">>[p + 1]
Heads == {priority_heads[p] : p \in Levels} \cup {"suspend_head", "task_head"}
Nodes == Tasks \cup Heads

-----------------------------------------------------------------------------
(***************************************************************************)
(* linux/list.h and lib/list_debug.c on links L.                           *)
(***************************************************************************)
INIT_LIST_HEAD(L, e) ==
  [next |-> [L.next EXCEPT ![e] = e], prev |-> [L.prev EXCEPT ![e] = e]]

list_add_tail(L, e, head) ==
  LET last == L.prev[head]
  IN  IF L.next[last] # head \/ e \in {last, head} THEN L
      ELSE [next |-> [L.next EXCEPT ![last] = e, ![e] = head],
            prev |-> [L.prev EXCEPT ![head] = e, ![e] = last]]

del_valid(L, e) ==
  /\ Poison \notin {L.next[e], L.prev[e]}
  /\ L.next[L.prev[e]] = e
  /\ L.prev[L.next[e]] = e

list_del_entry(L, e) ==
  IF ~del_valid(L, e) THEN L
  ELSE [next |-> [L.next EXCEPT ![L.prev[e]] = L.next[e]],
        prev |-> [L.prev EXCEPT ![L.next[e]] = L.prev[e]]]

list_del(L, e) ==
  LET D == list_del_entry(L, e)
  IN  [next |-> [D.next EXCEPT ![e] = Poison], prev |-> [D.prev EXCEPT ![e] = Poison]]

list_move_tail(L, e, head) == list_add_tail(list_del_entry(L, e), e, head)

\* The entries list_for_each reaches from head (and Poison, if it gets there).
EntriesOf(L, head) ==
  FoldSet(LAMBDA k, R : R \cup {L.next[n] : n \in R \ {head, Poison}},
          {L.next[head]}, 1..Cardinality(Tasks)) \ {head}

-----------------------------------------------------------------------------
(***************************************************************************)
(* The interface, on S == [list, main, priority, auto].                    *)
(***************************************************************************)
Now == [list |-> list, main |-> main_list, priority |-> priority, auto |-> auto_load]

Linked(S, t) == t \in EntriesOf(S.main, "task_head")

tim_task_add(S, t, auto) ==
  [list |-> list_add_tail(INIT_LIST_HEAD(S.list, t), t, priority_heads[1]),
   main |-> list_add_tail(INIT_LIST_HEAD(S.main, t), t, "task_head"),
   priority |-> [S.priority EXCEPT ![t] = 1],
   auto |-> IF auto THEN S.auto \cup {t} ELSE S.auto \ {t}]

\* Mutant: the task stays in the list of all tasks.
tim_task_drop_StillFound(S, t) == [S EXCEPT !.list = list_del(@, t)]

tim_task_drop(S, t) ==
  [S EXCEPT !.list = list_del(@, t), !.main = list_del(@, t)]

tim_task_suspend(S, t) ==
  [S EXCEPT !.list = list_move_tail(@, t, "suspend_head")]

tim_task_resume(S, t) ==
  [S EXCEPT !.list = list_move_tail(@, t, priority_heads[S.priority[t]])]

tim_task_set_priority(S, t, p) ==
  [S EXCEPT !.list = list_add_tail(list_del(@, t), t, priority_heads[p]),
            !.priority[t] = p]

\* Every task of a sound list is taken out, the suspended ones last.
tim_task_cleanup_all(S) ==
  FoldSet(LAMBDA t, R : tim_task_drop(R, t), S, EntriesOf(S.main, "task_head"))

Becomes(S) ==
  /\ list' = S.list
  /\ main_list' = S.main
  /\ priority' = S.priority
  /\ auto_load' = S.auto

-----------------------------------------------------------------------------
(***************************************************************************)
(* What the callers do: in callbacks, and in the main loop between passes. *)
(***************************************************************************)
\* motor_simulation resumes or suspends the fake pulse with the speed; the
\* other callbacks leave the tasks alone.
CallbackResults(S, t) ==
  IF t = "motor_sim"
  THEN {tim_task_resume(S, "fake_pulse"), tim_task_suspend(S, "fake_pulse")}
  ELSE {S}

\* Mutant: the fake pulse stands right behind the task that moves it.
StartTasks_PulseAfterSim(u) ==
  IF u = "stator" THEN <<"motor_sim", "fake_pulse", "pid">>
  ELSE IF u = "hydrology" THEN <<"collecte_data", "link_pkt">>
  ELSE <<>>

\* The tasks pov_stator_alloc and hydrology_task_init add, in their order.
StartTasks(u) ==
  IF u = "stator" THEN <<"fake_pulse", "motor_sim", "pid">>
  ELSE IF u = "hydrology" THEN <<"collecte_data", "link_pkt">>
  ELSE <<>>

Empty ==
  LET self == [n \in Nodes |-> IF n \in Heads THEN n ELSE Poison]
      none == [next |-> self, prev |-> self]
  IN  [list |-> none, main |-> none, priority |-> [t \in Tasks |-> 0], auto |-> {}]

Init ==
  /\ use \in Uses
  /\ LET S == FoldLeft(LAMBDA R, t : tim_task_add(R, t, TRUE), Empty, StartTasks(use))
     IN  /\ list = S.list
         /\ main_list = S.main
         /\ priority = S.priority
         /\ auto_load = S.auto
  /\ expired = {} /\ due = {} /\ ran = {}
  /\ level = 0 /\ cur = "head0" /\ tmp = "head0" /\ pc = "main"
  /\ readded = FALSE /\ tuned = FALSE

AddTasks(ts, auto) ==
  /\ Becomes(FoldLeft(LAMBDA S, t : tim_task_add(S, t, auto), Now, ts))
  /\ expired' = expired \ Range(ts)
  /\ readded' = (readded \/ \E t \in Range(ts) : Linked(Now, t))

\* The tuning of the motor ended, once: pov_stator_fsm leaves STATOR_TUNING.
TuningEnds ==
  /\ pc = "main" /\ use = "stator" /\ ~tuned
  /\ tuned' = TRUE
  /\ AddTasks(<<"heartbeat", "process_cmd">>, TRUE)
  /\ UNCHANGED <<use, walk>>

\* A packet that ends in ETB or ESC.
hydrology_enable_link_packet ==
  /\ pc = "main" /\ use = "hydrology"
  /\ AddTasks(<<"link_pkt">>, TRUE)
  /\ UNCHANGED <<use, walk, tuned>>

\* A packet that ends in ETX.
hydrology_disable_link_packet ==
  /\ pc = "main" /\ use = "hydrology"
  /\ Becomes(tim_task_drop(Now, "link_pkt"))
  /\ UNCHANGED <<use, expired, walk, readded, tuned>>

ShellAdd ==
  /\ pc = "main" /\ use = "shell"
  /\ \E auto \in BOOLEAN : AddTasks(<<"example">>, auto)
  /\ UNCHANGED <<use, walk, tuned>>

ShellChange ==
  /\ pc = "main" /\ use = "shell" /\ Linked(Now, "example")
  /\ \/ Becomes(tim_task_drop(Now, "example"))
     \/ Becomes(tim_task_suspend(Now, "example"))
     \/ Becomes(tim_task_resume(Now, "example"))
     \/ \E p \in Levels : Becomes(tim_task_set_priority(Now, "example", p))
  /\ UNCHANGED <<use, expired, walk, readded, tuned>>

\* On sound lists only: what it does to corrupt ones is not modelled.
ShellCleanup ==
  /\ pc = "main" /\ use = "shell" /\ ~readded
  /\ Becomes(tim_task_cleanup_all(Now))
  /\ UNCHANGED <<use, expired, walk, readded, tuned>>

Expire(t) ==
  /\ Linked(Now, t) /\ t \notin expired
  /\ expired' = expired \cup {t}
  /\ UNCHANGED <<use, lists, walk, readded, tuned>>

-----------------------------------------------------------------------------
(***************************************************************************)
(* tim_task_loop: one step per entry of list_for_each_entry_safe, which    *)
(* reads the entry after the cursor before the body runs.                  *)
(***************************************************************************)
ListHead == priority_heads[level]

\* The cursor moves to node n of links L, in the walk of priority p.
CursorAt(L, n, p) ==
  /\ level' = p
  /\ cur' = n
  /\ tmp' = IF n = Poison THEN Poison ELSE L.next[n]
  /\ pc' = IF n \in Tasks \cup {priority_heads[p]} THEN "walk" ELSE "astray"


IsDue(t) == t \in due

\* Mutant: the priorities are counted from 1.
BeginPass_FromOne ==
  /\ pc = "main"
  /\ due' = expired
  /\ ran' = {}
  /\ CursorAt(list, list.next[priority_heads[1]], 1)
  /\ UNCHANGED <<use, lists, expired, readded, tuned>>

BeginPass ==
  /\ pc = "main"
  /\ due' = expired
  /\ ran' = {}
  /\ CursorAt(list, list.next[priority_heads[0]], 0)
  /\ UNCHANGED <<use, lists, expired, readded, tuned>>

\* Mutant: the next entry is read after the body.
Run_Unsafe ==
  /\ pc = "walk" /\ cur \in Tasks /\ IsDue(cur)
  /\ \E S \in CallbackResults(Now, cur) :
       LET D == IF cur \in auto_load THEN S ELSE tim_task_drop(S, cur)
       IN  Becomes(D) /\ CursorAt(D.list, D.list.next[cur], level)
  /\ ran' = ran \cup {cur}
  /\ due' = due \ {cur}
  /\ expired' = expired \ {cur}
  /\ UNCHANGED <<use, readded, tuned>>

\* A due entry: its callback runs, its timeout moves on or the task is
\* dropped, and the cursor goes to the entry saved before.
Run ==
  /\ pc = "walk" /\ cur \in Tasks /\ IsDue(cur)
  /\ \E S \in CallbackResults(Now, cur) :
       LET D == IF cur \in auto_load THEN S ELSE tim_task_drop(S, cur)
       IN  Becomes(D) /\ CursorAt(D.list, tmp, level)
  /\ ran' = ran \cup {cur}
  /\ due' = due \ {cur}
  /\ expired' = expired \ {cur}
  /\ UNCHANGED <<use, readded, tuned>>

Skip ==
  /\ pc = "walk" /\ cur \in Tasks /\ ~IsDue(cur)
  /\ CursorAt(list, tmp, level)
  /\ UNCHANGED <<use, lists, expired, due, ran, readded, tuned>>

NextLevel ==
  /\ pc = "walk" /\ cur = ListHead /\ level < 2
  /\ CursorAt(list, list.next[priority_heads[level + 1]], level + 1)
  /\ UNCHANGED <<use, lists, expired, due, ran, readded, tuned>>

EndPass ==
  /\ pc = "walk" /\ cur = ListHead /\ level = 2
  /\ pc' = "main" /\ cur' = "head0" /\ tmp' = "head0" /\ level' = 0
  /\ due' = {} /\ ran' = {}
  /\ UNCHANGED <<use, lists, expired, readded, tuned>>

tim_task_loop == BeginPass \/ Run \/ Skip \/ NextLevel \/ EndPass

Next ==
  \/ tim_task_loop
  \/ TuningEnds
  \/ hydrology_enable_link_packet
  \/ hydrology_disable_link_packet
  \/ ShellAdd
  \/ ShellChange
  \/ ShellCleanup
  \/ \E t \in Tasks : Expire(t)

Spec == Init /\ [][Next]_vars

\* The main loop calls tim_task_loop in every round, and the loop goes on.
FairSpec == Spec /\ WF_vars(tim_task_loop)

-----------------------------------------------------------------------------
\* tim_task_loop's cursor stays on the list of its priority although
\* motor_simulation moves another task between the lists during the walk and
\* one-shot tasks take themselves out: it never follows a poisoned pointer and
\* never goes over to the suspended tasks.  Callers must not add a linked task.
CursorOnItsList ==
  ~readded =>
    /\ pc # "astray"
    /\ pc = "walk" => cur \in EntriesOf(list, ListHead) \cup {ListHead}


\* tim_task_find_by_name walks the list of all tasks: it holds exactly the
\* tasks of the three priority lists and of the suspended list, and each of
\* those is in one list only, the one of its priority or the suspended one.
FoundIffListed ==
  LET found == EntriesOf(main_list, "task_head")
      at(h) == EntriesOf(list, h)
  IN  ~readded =>
        /\ \A t \in Tasks :
             t \in found <=> t \in at(priority_heads[priority[t]]) \cup at("suspend_head")
        /\ \A g, h \in Heads : g # h => at(g) \cap at(h) = {}

\* A pass of tim_task_loop comes to its end, and the main loop goes on, as
\* long as no linked task is added a second time.
PassEnds == (pc = "walk" /\ ~readded) ~> (pc = "main")

\* A task whose timeout has passed is called, or it is suspended or dropped
\* before: being moved behind others never keeps it from its turn.
ExpiredRuns ==
  \A t \in Tasks :
    (t \in expired /\ ~readded)
      ~> (t \notin expired \/ readded
           \/ t \notin EntriesOf(list, priority_heads[priority[t]]))

=============================================================================
