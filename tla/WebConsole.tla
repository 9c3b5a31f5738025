------------------------------- MODULE WebConsole -------------------------------
(***************************************************************************)
(* The detail page of the web console (web-app/js/console): a tree that    *)
(* selects an entity, tabs that ask the server for it when it is selected, *)
(* when they are and every five seconds, and a list of effectors that is   *)
(* asked for once, with a button that invokes one of them.  Handlers run to *)
(* their end; the order of answers is the network's.  What is bound, timed *)
(* or asked for more than once behaves as one or more: handlers repeat     *)
(* without effect, so sets say which.                                      *)
(***************************************************************************)
EXTENDS Naturals, FiniteSets

CONSTANTS
  Tabs,           \* names of Tab objects, of which "summary" is shown first
  MaxSelections,  \* bound on selections of an entity in the tree
  MaxCalls        \* bound on requests without an answer

Effectors == "effectors"                      \* a pane, but no Tab
Pane == Tabs \cup {Effectors}

ASSUME TabAssumption == "summary" \in Tabs /\ Effectors \notin Tabs
ASSUME SelectionsAssumption == MaxSelections \in Nat

(* Entities go by the number of their selection. *)
Entities == 1..MaxSelections
None == 0

VARIABLES
  selected,      \* entity_id of every tab, and selectedEntityId of effectors.js
  shown,         \* the pane that the user sees
  listening,     \* tabs whose handler.update is bound to "update", or more than once
  paused,        \* tabs whose rebindUpdate waits for its timeout, or several
  calls,         \* <<pane, entity>>: requests without an answer
  content,       \* the entity that a pane shows
  row,           \* the entity of selectedRowData while the invoke button is enabled
  invoked,       \* requests of the button: see InvokeEffector
  lapse          \* history: see Lapse

consoleVars == <<selected, shown, listening, paused, calls, content, row, invoked, lapse>>

(* Why the list of effectors may be of another entity although an answer    *)
(* about the selected one is no longer awaited: the list of an earlier      *)
(* selection came after that of a later one, or the request has failed.     *)
Lapse == {"none", "crossed", "failed"}

(* Mutated form: summary, which no event selects, is not bound from the start. *)
InitUnbound ==
  /\ selected = None /\ shown = "summary"
  /\ listening = {} /\ paused = {}
  /\ calls = {} /\ content = [p \in Pane |-> None]
  /\ row = None /\ invoked = {} /\ lapse = "none"

ConsoleInit ==
  /\ selected = None /\ shown = "summary"
  /\ listening = {"summary"} /\ paused = {}
  /\ calls = {} /\ content = [p \in Pane |-> None]
  /\ row = None /\ invoked = {} /\ lapse = "none"

--------------------------------------------------------------------------------
(* update of the tabs in T: nothing is asked for before an entity is selected *)
Update(T, e) ==
  /\ calls' = IF e = None THEN calls ELSE calls \cup (T \X {e})
  /\ Cardinality(calls') <= MaxCalls

(* entity_selected: every tab updates, shown or not. *)
EntitySelected ==
  /\ selected < MaxSelections /\ selected' = selected + 1
  /\ Update(Pane, selected')
  /\ lapse' = "none"
  /\ UNCHANGED <<shown, listening, paused, content, row, invoked>>

(* locationsTabSelected throws before appLocations is there, and jQuery then *)
(* calls none of the handlers bound after it: those of policies.             *)
Throws(p) == p = "location" /\ content[p] = None
Called(p) == IF Throws(p) THEN Tabs \ {"policies"} ELSE Tabs

(* tab_selected: the tab updates and listens, the others stop listening.     *)
(* Tabs are disabled until an entity is selected.                            *)
TabSelected(p) ==
  /\ selected # None /\ shown # p /\ shown' = p
  /\ Update({p} \cap Tabs, selected)
  /\ listening' = (listening \ Called(p)) \cup ({p} \cap Tabs)
  /\ UNCHANGED <<selected, paused, content, row, invoked, lapse>>

(* A click into a tab other than policies. *)
PauseUpdate(p) ==
  /\ p = shown /\ p \in Tabs \ {"policies"}
  /\ listening' = listening \ {p} /\ paused' = paused \cup {p}
  /\ UNCHANGED <<selected, shown, calls, content, row, invoked, lapse>>

(* Mutated form: the tab updates, but is not bound again. *)
RebindUpdateOnce(p, last) ==
  /\ p \in paused
  /\ paused' = IF last THEN paused \ {p} ELSE paused
  /\ Update({p}, selected)
  /\ UNCHANGED <<selected, shown, listening, content, row, invoked, lapse>>

(* One of the timeouts of p, perhaps the last, whatever tab is shown. *)
RebindUpdate(p, last) ==
  /\ p \in paused
  /\ paused' = IF last THEN paused \ {p} ELSE paused
  /\ Update({p}, selected) /\ listening' = listening \cup {p}
  /\ UNCHANGED <<selected, shown, content, row, invoked, lapse>>

TriggerUpdateEvent ==
  /\ Update(listening, selected)
  /\ UNCHANGED <<selected, shown, listening, paused, content, row, invoked, lapse>>

--------------------------------------------------------------------------------
(* An answer about e, perhaps the last one.  A list of effectors, of which   *)
(* there is one, disables the button.                                        *)
Answered(p, e, last) ==
  /\ <<p, e>> \in calls
  /\ calls' = IF last THEN calls \ {<<p, e>>} ELSE calls
  /\ p = Effectors => last
  /\ content' = [content EXCEPT ![p] = e]
  /\ lapse' = IF p = Effectors /\ e < content[p] THEN "crossed" ELSE lapse

(* Mutated form: the button stays as it is. *)
AnswerKeepsButton(p, e, last) ==
  /\ Answered(p, e, last)
  /\ UNCHANGED <<selected, shown, listening, paused, row, invoked>>

Answer(p, e, last) ==
  /\ Answered(p, e, last)
  /\ row' = IF p = Effectors THEN None ELSE row
  /\ UNCHANGED <<selected, shown, listening, paused, invoked>>

Error(p, e) ==
  /\ <<p, e>> \in calls
  /\ calls' = calls \ {<<p, e>>}
  /\ lapse' = IF p = Effectors /\ e = selected THEN "failed" ELSE lapse
  /\ UNCHANGED <<selected, shown, listening, paused, content, row, invoked>>

(* updateParameters: a click on a row of the list of effectors *)
UpdateParameters ==
  /\ shown = Effectors /\ content[Effectors] # None
  /\ row' = content[Effectors]
  /\ UNCHANGED <<selected, shown, listening, paused, calls, content, invoked, lapse>>

(* A click on the button: the request names selectedEntityId, and an        *)
(* effector of selectedRowData.  The rest of the record is history: why the *)
(* list on the page need not be that of the selected entity.                *)
InvokeEffector ==
  /\ shown = Effectors /\ row # None
  /\ invoked' = invoked \cup
       {[entity |-> selected, list |-> row,
         unless |-> IF <<Effectors, selected>> \in calls THEN "awaited" ELSE lapse]}
  /\ UNCHANGED <<selected, shown, listening, paused, calls, content, row, lapse>>

--------------------------------------------------------------------------------
User ==
  \/ EntitySelected
  \/ \E p \in Pane : TabSelected(p) \/ PauseUpdate(p)
  \/ UpdateParameters \/ InvokeEffector

Fails == \E p \in Pane, e \in Entities : Error(p, e)

ConsoleNext ==
  \/ User \/ Fails \/ TriggerUpdateEvent
  \/ \E p \in Tabs, last \in BOOLEAN : RebindUpdate(p, last)
  \/ \E p \in Pane, e \in Entities : \E last \in BOOLEAN : Answer(p, e, last)

ConsoleSpec == ConsoleInit /\ [][ConsoleNext]_consoleVars

(* Timeouts expire and answers arrive; the user need not do anything. *)
ConsoleFairSpec ==
  /\ ConsoleSpec /\ WF_consoleVars(TriggerUpdateEvent)
  /\ \A p \in Tabs : WF_consoleVars(RebindUpdate(p, TRUE))
  /\ \A p \in Pane, e \in Entities : WF_consoleVars(Answer(p, e, TRUE))

--------------------------------------------------------------------------------
(* Properties *)

(* Ranges; what a tab shows, waits for or invokes is of an entity that was   *)
(* selected, and the user leaves the summary only then.                      *)
ConsoleTypeOK ==
  /\ selected \in Entities \cup {None} /\ shown \in Pane
  /\ listening \subseteq Tabs /\ paused \subseteq Tabs \ {"policies"}
  /\ calls \subseteq Pane \X (1..selected)
  /\ content \in [Pane -> 0..selected] /\ row \in 0..selected
  /\ lapse \in Lapse
  /\ invoked \subseteq [entity : 1..selected, list : 1..selected, unless : Lapse \cup {"awaited"}]
  /\ selected = None => shown = "summary"

(* "Causes the selected tab to start updating": the tab that is shown polls  *)
(* the server, or will again after a pause, however often it was clicked,    *)
(* left and shown again, and whatever handler threw in between.              *)
ShownTabListens == shown \in Tabs => shown \in listening \cup paused

(* The request of the button takes its entity from the last selection and   *)
(* its effector from the list (invokeEffector): the two are of one entity,  *)
(* unless the button is pressed before the list of the selected entity has  *)
(* come, or that was the only one to fail or to be followed by an older.    *)
InvokesOnSelected ==
  \A q \in invoked : q.list = q.entity \/ q.unless # "none"

(* The button changes nothing else, so a run need not go on after its first *)
(* request: the next is also the first of some behaviour.                   *)
NothingInvoked == invoked = {}

(* When the user has settled and requests succeed, the tab that is shown     *)
(* ends with the selected entity, also when an answer about another came     *)
(* after the right one.  The list of effectors, asked for once, need not.    *)
ShowsSelected ==
  <>[][~User /\ ~Fails]_consoleVars =>
    <>[](selected # None /\ shown \in Tabs => content[shown] = selected)

================================================================================
