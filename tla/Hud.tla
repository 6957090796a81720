--------------------------------- MODULE Hud ---------------------------------
(***************************************************************************)
(* The helmet's display: hud_model.c, the model behind one mutex made by the *)
(* first call that misses it; its writers helmet_safety_on_transition,       *)
(* hud_marker_cb and app_main; its reader hud_task, on the other core.       *)
(* A call checks for the mutex, makes it, takes it, works and gives it back; *)
(* one that finds the mutex made looks and takes at once, as it stays made.  *)
(***************************************************************************)
EXTENDS SafetyStates, Sequences, SequencesExt

CONSTANTS
  MAX_WARNINGS,  (* HELMET_MAX_WARNINGS                                     *)
  MARKERS,       (* bound: markers Node 8 sends                             *)
  CHANGES        (* bound: changes of the safety state                      *)

ASSUME HudConstants == {MAX_WARNINGS, MARKERS, CHANGES} \subseteq Nat \ {0}

Callers == {"hud_task", "on_transition", "marker_cb", "app_main"}
NONE == FAULT            \* no handler of the core enters FAULT
ADVICE == 10             \* a text of Node 8; the helmet's own are the states

VARIABLES
  s_lock,        (* "null", "free", or the caller that holds it             *)
  pc,            (* of a caller: "out", "create", "in"                      *)
  calls,         (* hud_model calls a caller still has to make              *)
  shown_state, warnings,   (* s_model                                       *)
  banner,        (* what the display says of the state                      *)
  marks, moves,  (* markers received, changes made                          *)
  (* observers *)
  remade,        (* the mutex was made once more                            *)
  torn,          (* a list was drawn that was part old, part new            *)
  panic,         (* a give by another than the holder: configASSERT         *)
  newest         (* text of the newest warning not cleared since            *)

model == <<shown_state, warnings, newest>>
hudVars == <<suit, s_lock, pc, calls, model, banner, marks, moves, remade, torn, panic>>

HudInit ==
  /\ SuitInit
  /\ s_lock = "null" /\ pc = [c \in Callers |-> "out"]
  /\ calls = [c \in Callers |-> IF c = "app_main" THEN <<<<"cloud">>>> ELSE <<>>]
  /\ shown_state = BOOT /\ warnings = <<>> /\ newest = NONE
  /\ banner = BOOT /\ marks = 0 /\ moves = 0
  /\ remade = FALSE /\ torn = FALSE /\ panic = FALSE

-----------------------------------------------------------------------------
(* helmet_safety_on_transition: the banner's state, then the list *)
Told_late(to) ==         (* mutant: nothing for ESTOP but the warning *)
  CASE to = ESTOP -> <<<<"push", ESTOP>>>>
    [] to = PASSIVE -> <<<<"state", PASSIVE>>, <<"push", PASSIVE>>>>
    [] to = OPERATIONAL -> <<<<"state", OPERATIONAL>>, <<"clear">>>>
    [] OTHER -> <<<<"state", to>>>>
Told(to) ==
  CASE to \in {ESTOP, PASSIVE} -> <<<<"state", to>>, <<"push", to>>>>
    [] to = OPERATIONAL -> <<<<"state", to>>, <<"clear">>>>
    [] OTHER -> <<<<"state", to>>>>

(* A step of the safety core, which calls it holding its own lock *)
Transition ==
  /\ calls["on_transition"] = <<>> /\ ~panic
  /\ \/ Report \/ Clear \/ LinkBad \/ LinkGood
     \/ \E t \in {STANDBY, OPERATIONAL, PASSIVE} : ModeSet(t)
  /\ \/ state' = state /\ UNCHANGED <<calls, moves>>
     \/ /\ state' # state /\ moves < CHANGES /\ moves' = moves + 1
        /\ calls' = [calls EXCEPT !["on_transition"] = Told(state')]
  /\ UNCHANGED <<s_lock, pc, model, banner, marks, remade, torn, panic>>

(* hud_marker_cb *)
Marker ==
  /\ calls["marker_cb"] = <<>> /\ marks < MARKERS /\ ~panic
  /\ \E c \in {<<"clear">>, <<"battery">>, <<"push", ADVICE>>} :
       calls' = [calls EXCEPT !["marker_cb"] = <<c>>]
  /\ marks' = marks + 1
  /\ UNCHANGED <<suit, s_lock, pc, model, banner, moves, remade, torn, panic>>

(* hud_task comes round *)
Refresh ==
  /\ calls["hud_task"] = <<>> /\ ~panic
  /\ calls' = [calls EXCEPT !["hud_task"] = <<<<"snapshot">>>>]
  /\ UNCHANGED <<suit, s_lock, pc, model, banner, marks, moves, remade, torn, panic>>

(* app_main looks every 5 s whether the agent is there *)
SetCloud ==
  /\ calls["app_main"] = <<>> /\ ~panic
  /\ calls' = [calls EXCEPT !["app_main"] = <<<<"cloud">>>>]
  /\ UNCHANGED <<suit, s_lock, pc, model, banner, marks, moves, remade, torn, panic>>

-----------------------------------------------------------------------------
(* ensure_lock: look ... *)
EnsureLock(c) ==
  /\ pc[c] = "out" /\ calls[c] # <<>> /\ s_lock = "null"
  /\ pc' = [pc EXCEPT ![c] = "create"]
  /\ UNCHANGED <<suit, s_lock, calls, model, banner, marks, moves, remade, torn, panic>>

(* ... and make it, in the same static memory *)
Create(c) ==
  /\ pc[c] = "create" /\ pc' = [pc EXCEPT ![c] = "out"]
  /\ s_lock' = "free" /\ remade' = (remade \/ s_lock # "null")
  /\ UNCHANGED <<suit, calls, model, banner, marks, moves, torn, panic>>

Take_free(c) ==          (* mutant: the take times out and is taken for a success *)
  s_lock # "null" /\ s_lock' = c
Take(c) ==
  s_lock = "free" /\ s_lock' = c

Enter(c) ==
  /\ pc[c] = "out" /\ calls[c] # <<>> /\ Take(c) /\ pc' = [pc EXCEPT ![c] = "in"]
  /\ UNCHANGED <<suit, calls, model, banner, marks, moves, remade, torn, panic>>

(* helmet_hud_push_warning: room is made by dropping the oldest *)
PushWarning(text) ==
  Append(IF Len(warnings) >= MAX_WARNINGS THEN Tail(warnings) ELSE warnings, text)

(* The body of the call, and a snapshot is drawn.  One made beside a writer may
   be part old, part new. *)
Work(c) ==
  LET call  == Head(calls[c])
      alone == \A d \in Callers \ {c} : pc[d] # "in"
  IN  CASE call[1] = "state" ->
             /\ shown_state' = call[2] /\ UNCHANGED <<warnings, newest, banner, torn>>
        [] call[1] = "push" ->
             /\ warnings' = PushWarning(call[2]) /\ newest' = call[2]
             /\ UNCHANGED <<shown_state, banner, torn>>
        [] call[1] = "clear" ->
             /\ warnings' = <<>> /\ newest' = NONE
             /\ UNCHANGED <<shown_state, banner, torn>>
        [] call[1] = "snapshot" ->
             /\ banner' = shown_state
             /\ torn' \in {torn, torn \/ ~alone}
             /\ UNCHANGED model
        [] OTHER -> UNCHANGED <<model, banner, torn>>

(* xSemaphoreGive: the kernel stops on a give by another than the holder *)
Leave(c) ==
  /\ pc[c] = "in" /\ ~panic
  /\ Work(c)
  /\ pc' = [pc EXCEPT ![c] = "out"]
  /\ calls' = [calls EXCEPT ![c] = Tail(@)]
  /\ s_lock' = IF s_lock = c THEN "free" ELSE s_lock
  /\ panic' = (s_lock \in Callers \ {c})
  /\ UNCHANGED <<suit, marks, moves, remade>>

Call(c) == EnsureLock(c) \/ Create(c) \/ Enter(c) \/ Leave(c)

HudNext ==
  \/ Transition \/ Marker \/ Refresh \/ SetCloud
  \/ \E c \in Callers : Call(c)

(* Every task runs again, and a task that waits for the mutex gets it: it goes
   to the waiting task of the highest priority, and no caller asks for it
   without pause. *)
HudFair ==
  /\ WF_hudVars(Refresh)
  /\ \A c \in Callers : WF_hudVars(EnsureLock(c) \/ Create(c) \/ Leave(c)) /\ SF_hudVars(Enter(c))

-----------------------------------------------------------------------------
(* hud_model.c:1 "One mutex, snapshot-on-read, so rendering never tears", but
   for one boot: two first calls that both miss the mutex make it twice, and
   the second making frees it under its holder. *)
TearsOnlyAtBoot == (panic \/ torn) => remade

(* hud_model.c:62 "a full list must not hide the newest problem": with two
   tasks that push and clear, the newest warning not cleared since is last. *)
NewestKept ==
  ~remade => IF newest = NONE THEN warnings = <<>> ELSE warnings # <<>> /\ Last(warnings) = newest

(* safety_glue.c "tell the wearer, immediately": a state that lasts is on the
   banner in the end, whatever Node 8 sends meanwhile. *)
BannerFollows == <>[](banner = state \/ panic)

(* hud_model.c: what the display shows is whole and has the newest warning, once
   the mutex is there. *)
HudWhole == TearsOnlyAtBoot /\ NewestKept
=============================================================================
