-------------------------------- MODULE Tabs --------------------------------
(***************************************************************************)
(* The tab store of the dashboard, frontend/src/store/tabs.ts: the open    *)
(* tabs in their order, and the active one.  Each operator is one call of  *)
(* set, one step for React and for the user; the page that calls them and  *)
(* the panels that follow the tabs are in Browser.  A tab is a number in   *)
(* the order of opening, for its randomUUID; the agent and the hostname it *)
(* carries change nothing here.                                            *)
(***************************************************************************)
EXTENDS Naturals, SequencesExt

CONSTANT MaxTabs     \* bound: tabs opened in all

ASSUME MaxTabsAssumption == MaxTabs \in Nat

VARIABLES
    tabs,        \* the open tabs, in the order of the tab bar
    activeId,    \* the active tab, or NoTab
    opened,      \* tabs opened so far
    kind         \* Tab.type of each tab

tabVars == <<tabs, activeId, opened, kind>>

NoTab == 0
Ids == 1 .. MaxTabs
Open == Range(tabs)
Terminals == {t \in Open : kind[t] = "terminal"}

TabsTypeOK ==
    /\ tabs \in Seq(Ids)
    /\ activeId \in Ids \cup {NoTab}
    /\ opened \in 0 .. MaxTabs
    /\ kind \in [Ids -> {"terminal", "files"}]

TabsInit ==
    /\ tabs = <<>>
    /\ activeId = NoTab
    /\ opened = 0
    /\ kind = [t \in Ids |-> "files"]

------------------------------------------------------------------------------
(* open: a fresh tab at the end of the bar, active. *)
TabOpen(k) ==
    /\ opened < MaxTabs
    /\ opened' = opened + 1
    /\ tabs' = Append(tabs, opened')
    /\ activeId' = opened'
    /\ kind' = [kind EXCEPT ![opened'] = k]

IndexOf(t) == CHOOSE i \in DOMAIN tabs : tabs[i] = t

(* Mutant: the index before the first is not corrected to 0. *)
NeighbourUnclamped(i) ==
    IF i = 1 THEN NoTab ELSE RemoveAt(tabs, i)[i - 1]

(* What close makes active when the tab at index i was: the tab before it, *)
(* the new first one when there is none before, or nothing.                *)
Neighbour(i) ==
    LET rest == RemoveAt(tabs, i)
    IN  IF rest = <<>> THEN NoTab ELSE IF i = 1 THEN rest[1] ELSE rest[i - 1]

(* close, for a tab in the bar. *)
TabClose(t) ==
    /\ t \in Open
    /\ tabs' = RemoveAt(tabs, IndexOf(t))
    /\ activeId' = IF activeId = t THEN Neighbour(IndexOf(t)) ELSE activeId
    /\ UNCHANGED <<opened, kind>>

(* setActive, for a tab in the bar. *)
TabSelect(t) ==
    /\ t \in Open
    /\ activeId' = t
    /\ UNCHANGED <<tabs, opened, kind>>

(* The store is not persisted: a reload empties it. *)
TabsReset ==
    /\ tabs' = <<>>
    /\ activeId' = NoTab
    /\ UNCHANGED <<opened, kind>>
==============================================================================
