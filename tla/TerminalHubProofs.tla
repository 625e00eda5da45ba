------------------------- MODULE TerminalHubProofs -------------------------
(***************************************************************************)
(* The safety properties of TerminalHub, for any sets of agents,           *)
(* connections and terminals.  The argument is the inductive invariant     *)
(* IInv: InitInv and StepInv are its two halves; the lemmas between    *)
(* them are the actions that touch the Hub or begin and end something, and *)
(* QuietConnInv and QuietTermInv are the ones that only move a goroutine.  *)
(***************************************************************************)
EXTENDS TerminalHub, TLAPS

(* A server that has just started satisfies the invariant.                 *)
LEMMA InitInv == Init => IInv
BY NoConnAssumption, NoSessionAssumption
   DEF Init, HubInit, IInv, TypeOK, HubTypeOK, EntryOwned, CapturedRegistered,
       NotYetStarted, IndexOwned, ExitingHoldsExited, ListedIsAttached,
       DetachedIsDone, IndexedWhileRegistered, LostOnlyToSameAgent, DoneHasCause,
       IsOnline, IndexedSessions, Live, Attached

------------------------------------------------------------------------------
(* A new connection is no terminal's captured one yet, so an empty    *)
(* index is right for it.                                                  *)
LEMMA RegisterInv ==
  ASSUME IInv, NEW c \in Conns, Register(c) PROVE IInv'
<1> USE NoConnAssumption, NoSessionAssumption
        DEF IInv, TypeOK, HubTypeOK, Register
<1>1. EntryOwned'
  BY DEF EntryOwned, IsOnline, Live, HubRegister, termVars
<1>2. CapturedRegistered'
  BY DEF CapturedRegistered, Live, HubRegister, termVars
<1>3. IndexOwned'
  BY DEF IndexOwned, IsOnline, IndexedSessions, HubRegister, termVars
<1>4. ExitingHoldsExited'
  BY DEF ExitingHoldsExited, Live, HubRegister, termVars
<1>5. IndexedWhileRegistered'
  BY DEF IndexedWhileRegistered, CapturedRegistered, Live, HubRegister,
         termVars
<1>6. LostOnlyToSameAgent'
  BY DEF LostOnlyToSameAgent, Live, HubRegister, termVars
<1>7. DoneHasCause'
  BY DEF DoneHasCause, HubRegister, termVars
<1>8. TypeOK'
  BY DEF Live, Attached, HubRegister, termVars
<1>9. NotYetStarted' /\ ListedIsAttached' /\ DetachedIsDone'
  BY DEF NotYetStarted, ListedIsAttached, DetachedIsDone, Attached,
         HubRegister, termVars
<1> QED  BY <1>1, <1>2, <1>3, <1>4, <1>5, <1>6, <1>7, <1>8, <1>9

(* The shell has exited by the time its handler looks at Done.             *)
LEMMA RecvShellExitInv ==
  ASSUME IInv, NEW c \in Conns, NEW s \in Sessions, RecvShellExit(c, s)
  PROVE  IInv'
<1> USE NoConnAssumption, NoSessionAssumption
        DEF IInv, TypeOK, HubTypeOK, RecvShellExit
<1>1. EntryOwned'
  BY DEF EntryOwned, IsOnline, Live, hubVars
<1>2. CapturedRegistered'
  BY DEF CapturedRegistered, Live, hubVars
<1>3. NotYetStarted'
  BY DEF NotYetStarted, hubVars
<1>4. ExitingHoldsExited'
  BY DEF ExitingHoldsExited, Live, hubVars
<1>5. LostOnlyToSameAgent'
  BY DEF LostOnlyToSameAgent, Live, hubVars
<1>6. DoneHasCause'
  BY DEF DoneHasCause, hubVars
<1>7. TypeOK'
  BY DEF Live, Attached, hubVars
<1>8. /\ IndexOwned'
      /\ ListedIsAttached'
      /\ DetachedIsDone'
      /\ IndexedWhileRegistered'
  BY DEF IndexOwned, ListedIsAttached, DetachedIsDone, IndexedWhileRegistered,
         IsOnline, IndexedSessions, Attached, hubVars
<1> QED  BY <1>1, <1>2, <1>3, <1>4, <1>5, <1>6, <1>7, <1>8

(* The shell that has exited is what the close of Done answers to.         *)
LEMMA CloseOnExitInv ==
  ASSUME IInv, NEW c \in Conns, CloseOnExit(c) PROVE IInv'
<1> USE NoConnAssumption, NoSessionAssumption
        DEF IInv, TypeOK, HubTypeOK, CloseOnExit
<1>1. EntryOwned'
  BY DEF EntryOwned, IsOnline, Live, CloseDone, hubVars, termVars
<1>2. CapturedRegistered'
  BY DEF CapturedRegistered, Live, CloseDone, hubVars, termVars
<1>3. NotYetStarted'
  BY DEF NotYetStarted, ExitingHoldsExited, Live, CloseDone, hubVars, termVars
<1>4. IndexOwned'
  BY DEF IndexOwned, IsOnline, IndexedSessions, CloseDone, hubVars, termVars
<1>5. ExitingHoldsExited'
  BY DEF ExitingHoldsExited, Live, CloseDone, hubVars, termVars
<1>6. DetachedIsDone'
  BY DEF DetachedIsDone, CloseDone, hubVars, termVars
<1>7. LostOnlyToSameAgent'
  BY DEF LostOnlyToSameAgent, Live, CloseDone, hubVars, termVars
<1>8. DoneHasCause'
  BY DEF DoneHasCause, ExitingHoldsExited, Live, CloseDone, hubVars, termVars
<1>9. TypeOK'
  BY DEF Live, Attached, CloseDone, hubVars, termVars
<1>10. ListedIsAttached' /\ IndexedWhileRegistered'
  BY DEF ListedIsAttached, IndexedWhileRegistered, Attached, CloseDone,
         hubVars, termVars
<1> QED  BY <1>1, <1>2, <1>3, <1>4, <1>5, <1>6, <1>7, <1>8, <1>9, <1>10

(* What Unregister closes is indexed under the agent whose connection is   *)
(* closing: that connection is the cause.                                  *)
LEMMA LeaveInv ==
  ASSUME IInv, NEW c \in Conns, Leave(c) PROVE IInv'
<1> USE NoConnAssumption, NoSessionAssumption
        DEF IInv, TypeOK, HubTypeOK, Leave
<1>1. EntryOwned'
  BY DEF EntryOwned, IsOnline, Live, IndexedSessions, HubUnregister, termVars
<1>2. CapturedRegistered'
  BY DEF CapturedRegistered, Live, IndexedSessions, HubUnregister, termVars
<1>3. NotYetStarted'
  BY DEF NotYetStarted, IndexOwned, IsOnline, IndexedSessions, HubUnregister,
         termVars
<1>4. IndexOwned'
  BY DEF IndexOwned, EntryOwned, IsOnline, IndexedSessions, Live,
         HubUnregister, termVars
<1>5. ExitingHoldsExited'
  BY DEF ExitingHoldsExited, Live, IndexedSessions, HubUnregister, termVars
<1>6. ListedIsAttached'
  BY DEF ListedIsAttached, Attached, IndexedSessions, HubUnregister, termVars
<1>7. DetachedIsDone'
  BY DEF DetachedIsDone, IndexedSessions, HubUnregister, termVars
<1>8. IndexedWhileRegistered'
  BY DEF IndexedWhileRegistered, CapturedRegistered, ListedIsAttached, Live,
         Attached, IndexedSessions, HubUnregister, termVars
<1>9. LostOnlyToSameAgent'
  BY DEF LostOnlyToSameAgent, Live, IndexedSessions, HubUnregister, termVars
<1>10. DoneHasCause'
  BY DEF DoneHasCause, EntryOwned, IndexOwned, IsOnline, Live,
         IndexedSessions, HubUnregister, termVars
<1>11. TypeOK'
  BY DEF IndexedSessions, Live, Attached, HubUnregister, termVars
<1> QED  BY <1>1, <1>2, <1>3, <1>4, <1>5, <1>6, <1>7, <1>8, <1>9, <1>10, <1>11

(* The panic leaves the entry behind and is remembered.                    *)
LEMMA LeavePanicsInv ==
  ASSUME IInv, NEW c \in Conns, LeavePanics(c) PROVE IInv'
<1> USE NoConnAssumption, NoSessionAssumption
        DEF IInv, TypeOK, HubTypeOK, LeavePanics
<1>1. EntryOwned'
  BY DEF EntryOwned, IsOnline, Live, IndexedSessions, HubUnregisterPanics,
         termVars
<1>2. CapturedRegistered'
  BY DEF CapturedRegistered, Live, IndexedSessions, HubUnregisterPanics,
         termVars
<1>3. NotYetStarted'
  BY DEF NotYetStarted, IndexOwned, IsOnline, IndexedSessions,
         HubUnregisterPanics, termVars
<1>4. IndexOwned'
  BY DEF IndexOwned, IsOnline, IndexedSessions, HubUnregisterPanics, termVars
<1>5. ExitingHoldsExited'
  BY DEF ExitingHoldsExited, Live, IndexedSessions, HubUnregisterPanics,
         termVars
<1>6. ListedIsAttached'
  BY DEF ListedIsAttached, Attached, IndexedSessions, HubUnregisterPanics,
         termVars
<1>7. DetachedIsDone'
  BY DEF DetachedIsDone, IndexedSessions, HubUnregisterPanics, termVars
<1>8. IndexedWhileRegistered'
  BY DEF IndexedWhileRegistered, IndexedSessions, HubUnregisterPanics,
         termVars
<1>9. LostOnlyToSameAgent'
  BY DEF LostOnlyToSameAgent, Live, IndexedSessions, HubUnregisterPanics,
         termVars
<1>10. DoneHasCause'
  BY DEF DoneHasCause, EntryOwned, IndexOwned, IsOnline, Live,
         IndexedSessions, HubUnregisterPanics, termVars
<1>11. TypeOK'
  BY DEF IndexedSessions, Live, Attached, HubUnregisterPanics, termVars
<1> QED  BY <1>1, <1>2, <1>3, <1>4, <1>5, <1>6, <1>7, <1>8, <1>9, <1>10, <1>11

(* The entry GetAgent returns is one of the agent's registered connections. *)
LEMMA OpenTerminalInv ==
  ASSUME IInv, NEW s \in Sessions, OpenTerminal(s) PROVE IInv'
<1> USE NoConnAssumption, NoSessionAssumption
        DEF IInv, TypeOK, HubTypeOK, OpenTerminal
<1>1. CapturedRegistered'
  BY DEF CapturedRegistered, EntryOwned, Live, IsOnline, hubVars, connVars
<1>2. NotYetStarted'
  BY DEF NotYetStarted, IsOnline, hubVars, connVars
<1>3. IndexOwned'
  BY DEF IndexOwned, IsOnline, IndexedSessions, hubVars, connVars
<1>4. ListedIsAttached'
  BY DEF ListedIsAttached, Attached, IsOnline, hubVars, connVars
<1>5. DetachedIsDone'
  BY DEF DetachedIsDone, IsOnline, hubVars, connVars
<1>6. IndexedWhileRegistered'
  BY DEF IndexedWhileRegistered, ListedIsAttached, Attached, IsOnline,
         hubVars, connVars
<1>7. TypeOK'
  BY DEF IsOnline, Live, Attached, hubVars, connVars
<1>8. /\ EntryOwned'
      /\ ExitingHoldsExited'
      /\ LostOnlyToSameAgent'
      /\ DoneHasCause'
  BY DEF EntryOwned, ExitingHoldsExited, LostOnlyToSameAgent, DoneHasCause,
         IsOnline, Live, hubVars, connVars
<1> QED  BY <1>1, <1>2, <1>3, <1>4, <1>5, <1>6, <1>7, <1>8

(* The terminal enters the Hub, and the index of the entry it finds there. *)
LEMMA AttachInv ==
  ASSUME IInv, NEW s \in Sessions, Attach(s) PROVE IInv'
<1> USE NoConnAssumption, NoSessionAssumption
        DEF IInv, TypeOK, HubTypeOK, Attach
<1>1. CapturedRegistered'
  BY DEF CapturedRegistered, Live, IsOnline, HubAddSession, connVars
<1>2. NotYetStarted'
  BY DEF NotYetStarted, IsOnline, HubAddSession, connVars
<1>3. IndexOwned'
  BY DEF IndexOwned, EntryOwned, IsOnline, IndexedSessions, Live,
         HubAddSession, connVars
<1>4. ListedIsAttached'
  BY DEF ListedIsAttached, Attached, IsOnline, HubAddSession, connVars
<1>5. DetachedIsDone'
  BY DEF DetachedIsDone, IsOnline, HubAddSession, connVars
<1>6. IndexedWhileRegistered'
  BY DEF IndexedWhileRegistered, CapturedRegistered, Live, IsOnline,
         HubAddSession, connVars
<1>7. DoneHasCause'
  BY DEF DoneHasCause, NotYetStarted, IsOnline, HubAddSession, connVars
<1>8. TypeOK'
  BY DEF IsOnline, Live, Attached, HubAddSession, connVars
<1>9. EntryOwned' /\ ExitingHoldsExited' /\ LostOnlyToSameAgent'
  BY DEF EntryOwned, ExitingHoldsExited, LostOnlyToSameAgent, IsOnline, Live,
         HubAddSession, connVars
<1> QED  BY <1>1, <1>2, <1>3, <1>4, <1>5, <1>6, <1>7, <1>8, <1>9

(* Until now there was neither a shell nor a reader.                       *)
LEMMA StartShellInv ==
  ASSUME IInv, NEW s \in Sessions, StartShell(s) PROVE IInv'
<1> USE NoConnAssumption, NoSessionAssumption
        DEF IInv, TypeOK, HubTypeOK, StartShell
<1>1. CapturedRegistered'
  BY DEF CapturedRegistered, Live, hubVars, connVars
<1>2. NotYetStarted'
  BY DEF NotYetStarted, hubVars, connVars
<1>3. IndexOwned'
  BY DEF IndexOwned, IsOnline, IndexedSessions, hubVars, connVars
<1>4. ExitingHoldsExited'
  BY DEF ExitingHoldsExited, NotYetStarted, Live, hubVars, connVars
<1>5. ListedIsAttached'
  BY DEF ListedIsAttached, Attached, hubVars, connVars
<1>6. DetachedIsDone'
  BY DEF DetachedIsDone, hubVars, connVars
<1>7. DoneHasCause'
  BY DEF DoneHasCause, NotYetStarted, hubVars, connVars
<1>8. TypeOK'
  BY DEF Live, Attached, hubVars, connVars
<1>9. /\ EntryOwned'
      /\ IndexedWhileRegistered'
      /\ LostOnlyToSameAgent'
  BY DEF EntryOwned, IndexedWhileRegistered, LostOnlyToSameAgent, IsOnline,
         Live, hubVars, connVars
<1> QED  BY <1>1, <1>2, <1>3, <1>4, <1>5, <1>6, <1>7, <1>8, <1>9

(* RemoveSession takes the terminal out of the index in use.               *)
LEMMA DetachInv ==
  ASSUME IInv, NEW s \in Sessions, Detach(s) PROVE IInv'
<1> USE NoConnAssumption, NoSessionAssumption
        DEF IInv, TypeOK, HubTypeOK, Detach
<1>1. CapturedRegistered'
  BY DEF CapturedRegistered, Live, IsOnline, HubRemoveSession, connVars
<1>2. NotYetStarted'
  BY DEF NotYetStarted, IsOnline, HubRemoveSession, connVars
<1>3. IndexOwned'
  BY DEF IndexOwned, EntryOwned, IsOnline, IndexedSessions, Live,
         HubRemoveSession, connVars
<1>4. ListedIsAttached'
  BY DEF ListedIsAttached, Attached, IsOnline, HubRemoveSession, connVars
<1>5. DetachedIsDone'
  BY DEF DetachedIsDone, IsOnline, HubRemoveSession, connVars
<1>6. IndexedWhileRegistered'
  BY DEF IndexedWhileRegistered, IsOnline, HubRemoveSession, connVars
<1>7. DoneHasCause'
  BY DEF DoneHasCause, IsOnline, HubRemoveSession, connVars
<1>8. TypeOK'
  BY DEF IsOnline, Live, Attached, HubRemoveSession, connVars
<1>9. EntryOwned' /\ ExitingHoldsExited' /\ LostOnlyToSameAgent'
  BY DEF EntryOwned, ExitingHoldsExited, LostOnlyToSameAgent, IsOnline, Live,
         HubRemoveSession, connVars
<1> QED  BY <1>1, <1>2, <1>3, <1>4, <1>5, <1>6, <1>7, <1>8, <1>9

(* A reader that is about to close has seen the browser go.                *)
LEMMA CloseOnBrowserGoneInv ==
  ASSUME IInv, NEW s \in Sessions, CloseOnBrowserGone(s) PROVE IInv'
<1> USE NoConnAssumption, NoSessionAssumption
        DEF IInv, TypeOK, HubTypeOK, CloseOnBrowserGone
<1>1. NotYetStarted'
  BY DEF NotYetStarted, CloseDone, connVars
<1>2. IndexOwned'
  BY DEF IndexOwned, IsOnline, IndexedSessions, CloseDone, connVars
<1>3. DetachedIsDone'
  BY DEF DetachedIsDone, CloseDone, connVars
<1>4. DoneHasCause'
  BY DEF DoneHasCause, NotYetStarted, CloseDone, connVars
<1>5. TypeOK'
  BY DEF Live, Attached, CloseDone, connVars
<1>6. /\ EntryOwned'
      /\ CapturedRegistered'
      /\ ExitingHoldsExited'
      /\ ListedIsAttached'
      /\ IndexedWhileRegistered'
      /\ LostOnlyToSameAgent'
  BY DEF EntryOwned, CapturedRegistered, ExitingHoldsExited, ListedIsAttached,
         IndexedWhileRegistered, LostOnlyToSameAgent, IsOnline, Live,
         Attached, CloseDone, connVars
<1> QED  BY <1>1, <1>2, <1>3, <1>4, <1>5, <1>6

(* After the crash nothing is registered, listed or live.                  *)
LEMMA ReaderPanicsInv ==
  ASSUME IInv, NEW s \in Sessions, ReaderPanics(s) PROVE IInv'
<1> USE NoConnAssumption, NoSessionAssumption
        DEF IInv, TypeOK, HubTypeOK, ReaderPanics
<1>1. EntryOwned'
  BY DEF EntryOwned, IsOnline, Live, HubReset
<1>2. CapturedRegistered'
  BY DEF CapturedRegistered, Live, HubReset
<1>3. NotYetStarted'
  BY DEF NotYetStarted, Live, HubReset
<1>4. IndexOwned'
  BY DEF IndexOwned, IsOnline, IndexedSessions, Live, HubReset
<1>5. ExitingHoldsExited'
  BY DEF ExitingHoldsExited, Live, HubReset
<1>6. ListedIsAttached'
  BY DEF ListedIsAttached, Attached, Live, HubReset
<1>7. DetachedIsDone'
  BY DEF DetachedIsDone, Live, HubReset
<1>8. IndexedWhileRegistered'
  BY DEF IndexedWhileRegistered, Live, HubReset
<1>9. LostOnlyToSameAgent'
  BY DEF LostOnlyToSameAgent, Live, HubReset
<1>10. DoneHasCause'
  BY DEF DoneHasCause, Live, HubReset
<1>11. TypeOK'
  BY DEF Live, Attached, HubReset
<1> QED  BY <1>1, <1>2, <1>3, <1>4, <1>5, <1>6, <1>7, <1>8, <1>9, <1>10, <1>11

(* The steps of an agent connection that leave the Hub alone.              *)
LEMMA QuietConnInv ==
  ASSUME IInv, NEW c \in Conns,
         \/ Dial(c)
         \/ LinkBreaks(c)
         \/ Refuse(c)
         \/ ReadFails(c)
  PROVE  IInv'
<1> USE NoConnAssumption, NoSessionAssumption
        DEF IInv, TypeOK, HubTypeOK, EntryOwned, CapturedRegistered, NotYetStarted,
            IndexOwned, ExitingHoldsExited, ListedIsAttached, DetachedIsDone,
            IndexedWhileRegistered, LostOnlyToSameAgent, DoneHasCause,
            IsOnline, IndexedSessions, Live, Attached, hubVars, connVars, termVars
<1>1. CASE Dial(c)  BY <1>1 DEF Dial
<1>2. CASE LinkBreaks(c)  BY <1>2 DEF LinkBreaks
<1>3. CASE Refuse(c)  BY <1>3 DEF Refuse
<1>4. CASE ReadFails(c)  BY <1>4 DEF ReadFails
<1> HIDE DEF IInv
<1> QED  BY <1>1, <1>2, <1>3, <1>4

(* A step that leaves the Hub and the connections alone, takes no terminal *)
(* back and reopens no browser preserves the invariant if it preserves the *)
(* parts that are about the terminal's goroutines alone.                   *)
LEMMA TerminalOnly ==
  ASSUME IInv, TypeOK', NotYetStarted', ListedIsAttached',
         UNCHANGED <<hubVars, connVars, captured, shell>>,
         \A s \in Sessions :
            /\ term'[s] # "idle" => term[s] # "idle"
            /\ term'[s] \in {"idle", "upgrading"} => term[s] \in {"idle", "upgrading"}
            /\ term'[s] \in {"starting", "streaming", "writing"} =>
                  term[s] \in {"starting", "streaming", "writing"}
            /\ browser[s] = "closed" => browser'[s] = "closed"
  PROVE  IInv'
<1> USE DEF hubVars, connVars
<1>1. EntryOwned' /\ ExitingHoldsExited' /\ LostOnlyToSameAgent'
  BY DEF IInv, EntryOwned, ExitingHoldsExited, LostOnlyToSameAgent, IsOnline
<1>2. CapturedRegistered'
  BY DEF IInv, CapturedRegistered
<1>3. IndexedWhileRegistered'
  BY DEF IInv, IndexedWhileRegistered
<1>4. IndexOwned'
  <2>1. ASSUME NEW c \in Conns, NEW s \in connSessions[c] PROVE s \in Sessions
    BY DEF IInv, TypeOK, HubTypeOK
  <2> QED  BY <2>1 DEF IInv, IndexOwned, IndexedSessions
<1>5. DetachedIsDone' /\ DoneHasCause'
  BY DEF IInv, DetachedIsDone, DoneHasCause
<1> QED  BY <1>1, <1>2, <1>3, <1>4, <1>5 DEF IInv

(* The steps of a terminal's goroutines that leave the Hub alone.          *)
LEMMA QuietTermInv ==
  ASSUME IInv, NEW s \in Sessions,
         \/ UpgradeFails(s)
         \/ SeeDone(s)
         \/ TakeOutput(s)
         \/ OutputWritten(s)
         \/ OutputFails(s)
         \/ BrowserCloses(s)
         \/ ForwardInput(s)
         \/ InputSent(s)
         \/ InputLost(s)
         \/ BrowserReadFails(s)
  PROVE  IInv'
<1>1. TypeOK /\ NotYetStarted /\ ListedIsAttached
  BY DEF IInv
<1> USE <1>1 DEF TypeOK, HubTypeOK, NotYetStarted, ListedIsAttached, Attached, hubVars,
        connVars
<1>2. CASE UpgradeFails(s)
  <2> USE <1>2 DEF UpgradeFails
  <2>1. TypeOK'
    OBVIOUS
  <2>2. NotYetStarted' /\ ListedIsAttached'
    OBVIOUS
  <2> QED  BY <2>1, <2>2, TerminalOnly
<1>3. CASE SeeDone(s)
  <2> USE <1>3 DEF SeeDone
  <2>1. TypeOK'
    OBVIOUS
  <2>2. NotYetStarted' /\ ListedIsAttached'
    OBVIOUS
  <2> QED  BY <2>1, <2>2, TerminalOnly
<1>4. CASE TakeOutput(s)
  <2> USE <1>4 DEF TakeOutput
  <2>1. TypeOK'
    OBVIOUS
  <2>2. NotYetStarted' /\ ListedIsAttached'
    OBVIOUS
  <2> QED  BY <2>1, <2>2, TerminalOnly
<1>5. CASE OutputWritten(s)
  <2> USE <1>5 DEF OutputWritten
  <2>1. TypeOK'
    OBVIOUS
  <2>2. NotYetStarted' /\ ListedIsAttached'
    OBVIOUS
  <2> QED  BY <2>1, <2>2, TerminalOnly
<1>6. CASE OutputFails(s)
  <2> USE <1>6 DEF OutputFails
  <2>1. TypeOK'
    OBVIOUS
  <2>2. NotYetStarted' /\ ListedIsAttached'
    OBVIOUS
  <2> QED  BY <2>1, <2>2, TerminalOnly
<1>7. CASE BrowserCloses(s)
  <2> USE <1>7 DEF BrowserCloses
  <2>1. TypeOK'
    OBVIOUS
  <2>2. NotYetStarted' /\ ListedIsAttached'
    OBVIOUS
  <2> QED  BY <2>1, <2>2, TerminalOnly
<1>8. CASE ForwardInput(s)
  <2> USE <1>8 DEF ForwardInput
  <2>1. TypeOK'
    OBVIOUS
  <2>2. NotYetStarted' /\ ListedIsAttached'
    OBVIOUS
  <2> QED  BY <2>1, <2>2, TerminalOnly
<1>9. CASE InputSent(s)
  <2> USE <1>9 DEF InputSent
  <2>1. TypeOK'
    OBVIOUS
  <2>2. NotYetStarted' /\ ListedIsAttached'
    OBVIOUS
  <2> QED  BY <2>1, <2>2, TerminalOnly
<1>10. CASE InputLost(s)
  <2> USE <1>10 DEF InputLost
  <2>1. TypeOK'
    OBVIOUS
  <2>2. NotYetStarted' /\ ListedIsAttached'
    OBVIOUS
  <2> QED  BY <2>1, <2>2, TerminalOnly
<1>11. CASE BrowserReadFails(s)
  <2> USE <1>11 DEF BrowserReadFails
  <2>1. TypeOK'
    OBVIOUS
  <2>2. NotYetStarted' /\ ListedIsAttached'
    OBVIOUS
  <2> QED  BY <2>1, <2>2, TerminalOnly
<1> QED  BY <1>2, <1>3, <1>4, <1>5, <1>6, <1>7, <1>8, <1>9, <1>10, <1>11

------------------------------------------------------------------------------
(* Every step of the server preserves the invariant.                       *)
LEMMA StepInv == IInv /\ [Next]_vars => IInv'
<1> SUFFICES ASSUME IInv, [Next]_vars PROVE IInv'
  OBVIOUS
<1>1. ASSUME NEW c \in Conns, ConnStep(c) PROVE IInv'
  BY <1>1, RegisterInv, RecvShellExitInv, CloseOnExitInv, LeaveInv, LeavePanicsInv,
     QuietConnInv
     DEF ConnStep
<1>2. ASSUME NEW s \in Sessions, TermStep(s) \/ ReaderStep(s) PROVE IInv'
  BY <1>2, OpenTerminalInv, AttachInv, StartShellInv, DetachInv,
     CloseOnBrowserGoneInv, ReaderPanicsInv, QuietTermInv
     DEF TermStep, ReaderStep
<1>3. CASE Restart
  <2> USE DEF Restart, hubVars, connVars, termVars
  <2>1. TypeOK'
    BY <1>3 DEF IInv, TypeOK, HubTypeOK, Live, Attached
  <2>2. EntryOwned' /\ CapturedRegistered' /\ NotYetStarted' /\ IndexOwned'
        /\ ExitingHoldsExited'
    BY <1>3 DEF IInv, EntryOwned, CapturedRegistered, NotYetStarted, IndexOwned,
                ExitingHoldsExited, IsOnline, IndexedSessions, Live
  <2>3. ListedIsAttached' /\ DetachedIsDone' /\ IndexedWhileRegistered'
        /\ LostOnlyToSameAgent' /\ DoneHasCause'
    BY <1>3 DEF IInv, ListedIsAttached, DetachedIsDone, IndexedWhileRegistered,
                LostOnlyToSameAgent, DoneHasCause, Live, Attached
  <2> QED  BY <2>1, <2>2, <2>3 DEF IInv
<1>4. CASE UNCHANGED vars
  BY <1>4 DEF IInv, TypeOK, HubTypeOK, EntryOwned, CapturedRegistered,
       NotYetStarted, IndexOwned, ExitingHoldsExited, ListedIsAttached,
       DetachedIsDone, IndexedWhileRegistered, LostOnlyToSameAgent, DoneHasCause,
       IsOnline, IndexedSessions, Live, Attached, vars, hubVars, connVars, termVars
<1> QED  BY <1>1, <1>2, <1>3, <1>4 DEF Next

(* The invariant holds in every state the server reaches.                  *)
THEOREM Invariance == Spec => []IInv
<1>1. Init => IInv
  BY InitInv
<1>2. IInv /\ [Next]_vars => IInv'
  BY StepInv
<1> QED  BY <1>1, <1>2, PTL DEF Spec

------------------------------------------------------------------------------
(* Every variable keeps its type: in particular no handler or terminal is  *)
(* ever driven into a state the code has no name for.                      *)
THEOREM TypeCorrect == Spec => []TypeOK
<1>1. IInv => TypeOK
  BY DEF IInv
<1> QED  BY <1>1, Invariance, PTL

(* Sessions never leak in the Hub: what it lists has a running terminal    *)
(* handler, ...                                                            *)
THEOREM SessionsAttached == Spec => []ListedIsAttached
<1>1. IInv => ListedIsAttached
  BY DEF IInv
<1> QED  BY <1>1, Invariance, PTL

(* and a terminal it no longer lists has been told to stop.                *)
THEOREM DetachedTold == Spec => []DetachedIsDone
<1>1. IInv => DetachedIsDone
  BY DEF IInv
<1> QED  BY <1>1, Invariance, PTL

(* While the connection a terminal talks to is the registered one,         *)
(* Unregister finds the terminal.                                          *)
THEOREM IndexComplete == Spec => []IndexedWhileRegistered
<1>1. IInv => IndexedWhileRegistered
  BY DEF IInv
<1> QED  BY <1>1, Invariance, PTL

(* The index Unregister walks holds terminals of its own agent only, and   *)
(* none that has ended with its Done still open.                           *)
THEOREM IndexSound == Spec => []IndexAgrees
<1>1. IInv => IndexAgrees
  <2> SUFFICES ASSUME IInv, NEW a \in Agents
               PROVE  /\ IsOnline(a) => hostOf[agents[a]] = a
                      /\ \A s \in IndexedSessions(a) :
                            /\ target[s] = a
                            /\ s \notin sessions => done[s]
    BY DEF IndexAgrees
  <2>1. IsOnline(a) => agents[a] \in Conns /\ hostOf[agents[a]] = a
    BY DEF IInv, TypeOK, HubTypeOK, EntryOwned, IsOnline
  <2>2. \A s \in IndexedSessions(a) : target[s] = a
    BY <2>1 DEF IInv, IndexOwned, IndexedSessions, IsOnline
  <2>3. \A s \in IndexedSessions(a) : s \notin sessions => done[s]
    BY DEF IInv, IndexOwned
  <2> QED  BY <2>1, <2>2, <2>3
<1> QED  BY <1>1, Invariance, PTL

(* An agent stays listed after its handler has ended only if that handler  *)
(* closed a Done twice.                                                    *)
THEOREM DeadEntryNeedsPanic == Spec => []DeadEntryOnlyAfterPanic
<1>1. IInv => DeadEntryOnlyAfterPanic
  BY DEF IInv, EntryOwned, DeadEntryOnlyAfterPanic, IsOnline
<1> QED  BY <1>1, Invariance, PTL

(* Agents do not disturb each other: a connected agent is lost to the Hub  *)
(* only through another connection of its own, ...                         *)
THEOREM AgentsIsolated == Spec => []LostOnlyToSameAgent
<1>1. IInv => LostOnlyToSameAgent
  BY DEF IInv
<1> QED  BY <1>1, Invariance, PTL

(* and a terminal is stopped only by its browser, its shell or a           *)
(* connection of its own agent.                                            *)
THEOREM StoppedForACause == Spec => []DoneHasCause
<1>1. IInv => DoneHasCause
  BY DEF IInv
<1> QED  BY <1>1, Invariance, PTL
------------------------------------------------------------------------------
(* A server that has just started has nothing to end and is up.            *)
LEMMA ServiceInitInv == Init => ServiceInv
<1> SUFFICES ASSUME Init PROVE EndsForACause /\ DownIsEmpty
  BY InitInv DEF ServiceInv
<1> QED  BY DEF Init, EndsForACause, DownIsEmpty

(* A terminal's main loop leaves the select for Done, or the write for a   *)
(* browser that has gone; neither comes back.                              *)
LEMMA EndsForACauseStep ==
  ASSUME ServiceInv, [Next]_vars PROVE EndsForACause'
<1> USE DEF ServiceInv, IInv, TypeOK, HubTypeOK, EndsForACause
<1>1. ASSUME NEW c \in Conns, ConnStep(c) PROVE EndsForACause'
  BY <1>1 DEF ConnStep, Dial, LinkBreaks, Refuse, Register, RecvShellExit, CloseOnExit,
     ReadFails, Leave, LeavePanics, HubRegister, HubUnregister, HubUnregisterPanics,
     CloseDone, hubVars, termVars
<1>2. ASSUME NEW s \in Sessions, TermStep(s) PROVE EndsForACause'
  BY <1>2 DEF TermStep, OpenTerminal, UpgradeFails, Attach, StartShell, SeeDone,
     TakeOutput, OutputWritten, OutputFails, Detach, HubAddSession, HubRemoveSession,
     NotYetStarted, hubVars, connVars
<1>3. ASSUME NEW s \in Sessions, ReaderStep(s) PROVE EndsForACause'
  BY <1>3 DEF ReaderStep, BrowserCloses, ForwardInput, InputSent, InputLost,
     BrowserReadFails, CloseOnBrowserGone, ReaderPanics, CloseDone, HubReset,
     hubVars, connVars
<1>4. CASE Restart \/ UNCHANGED vars
  BY <1>4 DEF Restart, vars, hubVars, termVars
<1> QED  BY <1>1, <1>2, <1>3, <1>4 DEF Next

(* A server that is down has no goroutine, and nobody dials it.            *)
LEMMA DownIsEmptyStep ==
  ASSUME ServiceInv, [Next]_vars PROVE DownIsEmpty'
<1> USE DEF ServiceInv, IInv, TypeOK, HubTypeOK, DownIsEmpty, IsOnline, Live
<1>1. ASSUME NEW c \in Conns, ConnStep(c) PROVE DownIsEmpty'
  BY <1>1 DEF ConnStep, Dial, LinkBreaks, Refuse, Register, RecvShellExit, CloseOnExit,
     ReadFails, Leave, LeavePanics, HubRegister, HubUnregister, HubUnregisterPanics,
     CloseDone, hubVars, termVars
<1>2. ASSUME NEW s \in Sessions, TermStep(s) PROVE DownIsEmpty'
  BY <1>2 DEF TermStep, OpenTerminal, UpgradeFails, Attach, StartShell, SeeDone,
     TakeOutput, OutputWritten, OutputFails, Detach, HubAddSession, HubRemoveSession,
     hubVars, connVars
<1>3. ASSUME NEW s \in Sessions, ReaderStep(s) PROVE DownIsEmpty'
  BY <1>3 DEF ReaderStep, BrowserCloses, ForwardInput, InputSent, InputLost,
     BrowserReadFails, CloseOnBrowserGone, ReaderPanics, CloseDone, HubReset,
     hubVars, connVars
<1>4. CASE Restart \/ UNCHANGED vars
  BY <1>4 DEF Restart, vars, hubVars, connVars, termVars
<1> QED  BY <1>1, <1>2, <1>3, <1>4 DEF Next

(* A terminal's handler never ends for nothing, and a server that has died *)
(* leaves no goroutine and no registration behind.                         *)
THEOREM ServiceInvariance == Spec => []ServiceInv
<1>1. Init => ServiceInv
  BY ServiceInitInv
<1>2. ServiceInv /\ [Next]_vars => ServiceInv'
  BY StepInv, EndsForACauseStep, DownIsEmptyStep DEF ServiceInv
<1> QED  BY <1>1, <1>2, PTL DEF Spec
------------------------------------------------------------------------------
(* The refinement of TerminalService.  The causes of a terminal change     *)
(* with its browser, its shell and the ends of connections only, ...       *)
LEMMA CausesKept ==
  ASSUME UNCHANGED <<hostOf, target>>,
         \A c \in Conns : handler'[c] = "closed" <=> handler[c] = "closed",
         \A s \in Sessions : browser'[s] = "closed" <=> browser[s] = "closed",
         \A s \in Sessions : shell'[s] = "exited" <=> shell[s] = "exited"
  PROVE  \A s \in Sessions : CausesOf(s)' = CausesOf(s)
BY DEF CausesOf

(* and none of these three is ever undone.                                 *)
LEMMA CausesArise ==
  ASSUME ServiceInv, [Next]_vars PROVE Service!Arise
<1> USE DEF ServiceInv, IInv, TypeOK, HubTypeOK
<1>1. /\ UNCHANGED <<hostOf, target>>
      /\ \A c \in Conns : handler[c] = "closed" => handler'[c] = "closed"
      /\ \A s \in Sessions : browser[s] = "closed" => browser'[s] = "closed"
      /\ \A s \in Sessions : shell[s] = "exited" => shell'[s] = "exited"
  <2> DEFINE Goal == /\ UNCHANGED <<hostOf, target>>
                     /\ \A c \in Conns : handler[c] = "closed" => handler'[c] = "closed"
                     /\ \A s \in Sessions : browser[s] = "closed" => browser'[s] = "closed"
                     /\ \A s \in Sessions : shell[s] = "exited" => shell'[s] = "exited"
  <2>1. ASSUME NEW c \in Conns, ConnStep(c) PROVE Goal
    BY <2>1 DEF ConnStep, Dial, LinkBreaks, Refuse, Register, RecvShellExit, CloseOnExit,
       ReadFails, Leave, LeavePanics, HubRegister, HubUnregister, HubUnregisterPanics,
       CloseDone, hubVars, termVars
  <2>2. ASSUME NEW s \in Sessions, TermStep(s) PROVE Goal
    BY <2>2 DEF TermStep, OpenTerminal, UpgradeFails, Attach, StartShell, SeeDone,
       TakeOutput, OutputWritten, OutputFails, Detach, HubAddSession, HubRemoveSession,
       NotYetStarted, hubVars, connVars
  <2>3. ASSUME NEW s \in Sessions, ReaderStep(s) PROVE Goal
    BY <2>3 DEF ReaderStep, BrowserCloses, ForwardInput, InputSent, InputLost,
       BrowserReadFails, CloseOnBrowserGone, ReaderPanics, CloseDone, HubReset, Live,
       hubVars, connVars
  <2>4. CASE Restart \/ UNCHANGED vars
    BY <2>4 DEF Restart, vars, hubVars, connVars, termVars
  <2> QED  BY <2>1, <2>2, <2>3, <2>4 DEF Next
<1>2. \A s \in Sessions : CausesOf(s) \subseteq CausesOf(s)'
  BY <1>1 DEF CausesOf
<1>3. \A s \in Sessions : CausesOf(s)' \in SUBSET Service!Causes
  BY DEF CausesOf, Service!Causes
<1> QED  BY <1>2, <1>3 DEF Service!Arise

(* The close of Done in the handler of an agent tells the terminal whose   *)
(* shell has ended, which has been entered long ago.                       *)
LEMMA CloseOnExitTells ==
  ASSUME ServiceInv, NEW c \in Conns, CloseOnExit(c)
  PROVE  Service!Next \/ UNCHANGED Service!serviceVars
<1> USE DEF ServiceInv, IInv, TypeOK, HubTypeOK, CloseOnExit, termVars
<1> DEFINE s == exiting[c]
<1>1. s \in Sessions /\ shell[s] = "exited"
  BY NoSessionAssumption DEF ExitingHoldsExited
<1>2. server = "up"
  BY DEF DownIsEmpty
<1>3. UNCHANGED <<target, hostOf>>
  BY DEF CloseDone, hubVars
<1>4. \A t \in Sessions : CausesOf(t)' = CausesOf(t)
  BY <1>3, CausesKept DEF Live
<1>5. \A t \in Sessions : Stage(t)' = Stage(t)
  BY DEF Stage, CloseDone, hubVars
<1>6. CASE done[s]
  BY <1>3, <1>4, <1>5, <1>6 DEF Service!serviceVars, hubVars
<1>7. CASE ~done[s]
  <2>1. Stage(s) # "new"
    BY <1>1 DEF Stage, NotYetStarted
  <2>2. CausesOf(s) # {}
    BY <1>1 DEF CausesOf
  <2>3. done' = [done EXCEPT ![s] = TRUE]
    BY <1>7 DEF CloseDone
  <2>4. Service!Tell(s)
    BY <1>1, <1>2, <1>3, <1>4, <1>5, <1>7, <2>1, <2>2, <2>3 DEF Service!Tell
  <2> QED  BY <1>1, <2>4 DEF Service!Next
<1> QED  BY <1>6, <1>7
(* Unregister, when it runs to its end or panics half way, takes from the  *)
(* Hub what it tells, and that is terminals of its own agent.              *)
LEMMA LeaveDisconnects ==
  ASSUME ServiceInv, NEW c \in Conns, Leave(c) \/ LeavePanics(c)
  PROVE  Service!Disconnect(hostOf[c])
<1> USE DEF ServiceInv, IInv, TypeOK, HubTypeOK
<1> DEFINE a == hostOf[c]
<1>1. /\ UNCHANGED <<target, hostOf, server, term, browser, shell>>
      /\ handler[c] = "leaving"
      /\ handler' = [handler EXCEPT ![c] = "closed"]
  BY DEF Leave, LeavePanics, HubUnregister, HubUnregisterPanics, termVars
<1>2. server = "up"
  BY <1>1 DEF DownIsEmpty
<1>3. PICK T \in SUBSET {s \in IndexedSessions(a) : ~done[s]} :
         /\ done' = [s \in Sessions |-> done[s] \/ s \in T]
         /\ \A s \in T : s \notin sessions'
         /\ sessions' \subseteq sessions
         /\ \A s \in sessions \ sessions' : s \in T
  <2>1. CASE Leave(c)
    <3>1. IndexedSessions(a) \in SUBSET {s \in IndexedSessions(a) : ~done[s]}
      BY <2>1 DEF Leave, HubUnregister
    <3> QED  BY <2>1, <3>1 DEF Leave, HubUnregister
  <2>2. CASE LeavePanics(c)
    BY <2>2 DEF LeavePanics, HubUnregisterPanics
  <2> QED  BY <2>1, <2>2
<1>4. \A s \in T : s \in Sessions /\ target[s] = a /\ s \in sessions /\ ~done[s]
  BY DEF IndexOwned, EntryOwned, IndexedSessions, IsOnline
<1>5. \A s \in T : Stage(s) = "listed" /\ Stage(s)' = "unlisted"
  BY <1>1, <1>3, <1>4 DEF Stage, ListedIsAttached, Attached
<1>6. \A s \in Sessions \ T : Stage(s)' = Stage(s)
  BY <1>1, <1>3 DEF Stage
<1>7. \A s \in Sessions : CausesOf(s)' = IF target[s] = a THEN CausesOf(s) \cup {"agent"}
                                                        ELSE CausesOf(s)
  BY <1>1 DEF CausesOf
<1>8. T \in SUBSET {s \in Sessions :
          target[s] = a /\ [t \in Sessions |-> Stage(t)][s] = "listed" /\ ~done[s]}
  BY <1>4, <1>5
<1>9. [t \in Sessions |-> Stage(t)]' =
         [s \in Sessions |-> IF s \in T THEN "unlisted" ELSE [t \in Sessions |-> Stage(t)][s]]
  BY <1>5, <1>6
<1>10. [t \in Sessions |-> CausesOf(t)]' =
         [s \in Sessions |-> IF target[s] = a
                             THEN [t \in Sessions |-> CausesOf(t)][s] \cup {"agent"}
                             ELSE [t \in Sessions |-> CausesOf(t)][s]]
  BY <1>7
<1>11. (server = "up")' = (server = "up")
  BY <1>1
<1> QED
  BY <1>1, <1>2, <1>3, <1>8, <1>9, <1>10, <1>11 DEF Service!Disconnect

(* The other steps of a connection are none of a terminal's, except that a *)
(* shell may be found to have ended.                                       *)
LEMMA ConnServes ==
  ASSUME ServiceInv, NEW c \in Conns, ConnStep(c)
  PROVE  Service!Next \/ UNCHANGED Service!serviceVars
<1> USE DEF ServiceInv, IInv, TypeOK, HubTypeOK
<1>1. CASE Dial(c) \/ LinkBreaks(c) \/ Refuse(c) \/ Register(c) \/ ReadFails(c)
  <2>1. UNCHANGED <<target, hostOf, done, sessions, server, term, browser, shell>>
    BY <1>1 DEF Dial, LinkBreaks, Refuse, Register, ReadFails, HubRegister, hubVars, termVars
  <2>2. \A d \in Conns : handler'[d] = "closed" <=> handler[d] = "closed"
    BY <1>1 DEF Dial, LinkBreaks, Refuse, Register, ReadFails
  <2>3. \A s \in Sessions : CausesOf(s)' = CausesOf(s)
    BY <2>1, <2>2, CausesKept
  <2>4. \A s \in Sessions : Stage(s)' = Stage(s)
    BY <2>1 DEF Stage
  <2> QED  BY <2>1, <2>3, <2>4 DEF Service!serviceVars
<1>2. ASSUME NEW s \in Sessions, RecvShellExit(c, s) PROVE Service!Next
  <2>1. Service!Arise
    BY <1>2, CausesArise DEF Next, ConnStep
  <2>2. UNCHANGED <<target, done, sessions, server, term>>
    BY <1>2 DEF RecvShellExit, hubVars
  <2>3. \A t \in Sessions : Stage(t)' = Stage(t)
    BY <2>2 DEF Stage
  <2> QED  BY <2>1, <2>2, <2>3 DEF Service!Next, Service!Happen
<1>3. CASE Leave(c) \/ LeavePanics(c)
  BY <1>3, LeaveDisconnects DEF Service!Next
<1> QED  BY <1>1, <1>2, <1>3, CloseOnExitTells DEF ConnStep
(* The main loop of a terminal enters it, and ends it when it has been     *)
(* told or cannot reach its browser.                                       *)
LEMMA TermServes ==
  ASSUME ServiceInv, NEW s \in Sessions, TermStep(s)
  PROVE  Service!Next \/ UNCHANGED Service!serviceVars
<1> USE DEF ServiceInv, IInv, TypeOK, HubTypeOK, hubVars, connVars
<1>1. server = "up"
  BY DEF DownIsEmpty, TermStep, OpenTerminal, UpgradeFails, Attach, StartShell, SeeDone,
     TakeOutput, OutputWritten, OutputFails, Detach
<1>2. CASE \/ OpenTerminal(s) \/ StartShell(s) \/ SeeDone(s) \/ TakeOutput(s)
           \/ OutputWritten(s) \/ OutputFails(s)
  <2> USE DEF OpenTerminal, StartShell, SeeDone, TakeOutput, OutputWritten, OutputFails
  <2>1. UNCHANGED <<target, hostOf, done, sessions, server, browser, handler>>
    BY <1>2
  <2>2. \A t \in Sessions : shell'[t] = "exited" <=> shell[t] = "exited"
    BY <1>2 DEF NotYetStarted
  <2>3. \A t \in Sessions : CausesOf(t)' = CausesOf(t)
    BY <2>1, <2>2, CausesKept
  <2>4. \A t \in Sessions : Stage(t)' = Stage(t)
    BY <1>2 DEF Stage
  <2> QED  BY <2>1, <2>3, <2>4 DEF Service!serviceVars
<1>3. CASE UpgradeFails(s) \/ Attach(s)
  <2> DEFINE to == IF UpgradeFails(s) THEN "over" ELSE "listed"
  <2>1. UNCHANGED <<target, hostOf, done, server, handler, shell>>
    BY <1>3 DEF UpgradeFails, Attach, HubAddSession
  <2>2. \A t \in Sessions : browser'[t] = "closed" <=> browser[t] = "closed"
    BY <1>3 DEF UpgradeFails, Attach, NotYetStarted
  <2>3. \A t \in Sessions : CausesOf(t)' = CausesOf(t)
    BY <2>1, <2>2, CausesKept
  <2>4. Stage(s) = "new" /\ \A t \in Sessions \ {s} : Stage(t)' = Stage(t)
    BY <1>3 DEF UpgradeFails, Attach, HubAddSession, Stage
  <2>5. CASE UpgradeFails(s)
    <3>1. Stage(s)' = "over"
      BY <2>5 DEF UpgradeFails, Stage
    <3>2. Service!Reject(s)
      BY <1>1, <2>1, <2>3, <2>4, <3>1 DEF Service!Reject, Service!Move
    <3> QED  BY <3>2 DEF Service!Next
  <2>6. CASE Attach(s)
    <3>1. Stage(s)' = "listed"
      BY <2>6 DEF Attach, HubAddSession, Stage
    <3>2. Service!Enter(s)
      BY <1>1, <2>1, <2>3, <2>4, <3>1 DEF Service!Enter, Service!Move
    <3> QED  BY <3>2 DEF Service!Next
  <2> QED  BY <1>3, <2>5, <2>6
<1>4. CASE Detach(s)
  <2> USE <1>4 DEF Detach, HubRemoveSession
  <2>1. UNCHANGED <<target, hostOf, done, server, handler, shell>>
    OBVIOUS
  <2>2. Stage(s) \in {"listed", "unlisted"} /\ Stage(s)' = "over"
    BY DEF Stage
  <2>3. \A t \in Sessions \ {s} : Stage(t)' = Stage(t)
    BY DEF Stage
  <2>4. done[s] \/ "browser" \in CausesOf(s)
    BY DEF EndsForACause, CausesOf
  <2>5. \A t \in Sessions :
           CausesOf(t)' = IF t = s THEN CausesOf(t) \cup {"browser"} ELSE CausesOf(t)
    BY <2>1 DEF CausesOf
  <2>6. Service!End(s)
    BY <1>1, <2>1, <2>2, <2>3, <2>4, <2>5 DEF Service!End, Service!Move
  <2> QED  BY <2>6 DEF Service!Next
<1> QED  BY <1>2, <1>3, <1>4 DEF TermStep

(* The reader tells its own terminal, or takes the server down.            *)
LEMMA ReaderServes ==
  ASSUME ServiceInv, NEW s \in Sessions, ReaderStep(s)
  PROVE  Service!Next \/ UNCHANGED Service!serviceVars
<1> USE DEF ServiceInv, IInv, TypeOK, HubTypeOK, hubVars, connVars
<1>1. CASE ForwardInput(s) \/ InputSent(s) \/ InputLost(s) \/ BrowserReadFails(s)
  <2>1. UNCHANGED <<target, hostOf, done, sessions, server, term, browser, handler, shell>>
    BY <1>1 DEF ForwardInput, InputSent, InputLost, BrowserReadFails
  <2>2. \A t \in Sessions : CausesOf(t)' = CausesOf(t)
    BY <2>1, CausesKept
  <2>3. \A t \in Sessions : Stage(t)' = Stage(t)
    BY <2>1 DEF Stage
  <2> QED  BY <2>1, <2>2, <2>3 DEF Service!serviceVars
<1>2. CASE BrowserCloses(s)
  <2>1. Service!Arise
    BY <1>2, CausesArise DEF Next, ReaderStep
  <2>2. UNCHANGED <<target, done, sessions, server, term>>
    BY <1>2 DEF BrowserCloses
  <2>3. \A t \in Sessions : Stage(t)' = Stage(t)
    BY <2>2 DEF Stage
  <2> QED  BY <2>1, <2>2, <2>3 DEF Service!Next, Service!Happen
<1>3. CASE CloseOnBrowserGone(s)
  <2> USE <1>3 DEF CloseOnBrowserGone, CloseDone
  <2>1. server = "up"
    BY DEF DownIsEmpty
  <2>2. Stage(s) # "new" /\ "browser" \in CausesOf(s)
    BY DEF NotYetStarted, Stage, CausesOf
  <2>3. UNCHANGED <<target, hostOf, sessions, server, term, browser, handler, shell>>
    OBVIOUS
  <2>4. \A t \in Sessions : CausesOf(t)' = CausesOf(t)
    BY <2>3, CausesKept
  <2>5. \A t \in Sessions : Stage(t)' = Stage(t)
    BY <2>3 DEF Stage
  <2>6. Service!Tell(s)
    BY <2>1, <2>2, <2>3, <2>4, <2>5 DEF Service!Tell
  <2> QED  BY <2>6 DEF Service!Next
<1>4. CASE ReaderPanics(s)
  <2> DEFINE T == {t \in Sessions : term[t] = "idle"}
  <2> USE <1>4 DEF ReaderPanics, HubReset
  <2>1. server = "up" /\ server' = "down" /\ UNCHANGED <<target, done>>
    BY DEF DownIsEmpty
  <2>2. Stage(s) # "new" /\ done[s] /\ "browser" \in CausesOf(s)
    BY DEF NotYetStarted, Stage, CausesOf
  <2>3. \A t \in T : Stage(t) = "new"
    BY DEF Stage
  <2>4. \A t \in Sessions : Stage(t)' = IF t \in T THEN "new" ELSE "over"
    BY DEF Stage
  <2>5. Service!Arise
    BY CausesArise DEF Next, ReaderStep
  <2>6. Service!Crash
    <3> HIDE DEF ReaderPanics, HubReset, T
    <3>1. T \in SUBSET {t \in Sessions : [u \in Sessions |-> Stage(u)][t] = "new"}
      BY <2>3 DEF T
    <3> QED  BY <2>1, <2>2, <2>4, <2>5, <3>1 DEF Service!Crash
  <2> QED  BY <2>6 DEF Service!Next
<1> QED  BY <1>1, <1>2, <1>3, <1>4 DEF ReaderStep

(* Every step of the server is a step of the service, or none.             *)
LEMMA ServiceStep ==
  ServiceInv /\ [Next]_vars => [Service!Next]_(Service!serviceVars)
<1> SUFFICES ASSUME ServiceInv, [Next]_vars
             PROVE  Service!Next \/ UNCHANGED Service!serviceVars
  OBVIOUS
<1>1. CASE Restart
  <2>1. UNCHANGED <<target, hostOf, done, sessions, term, browser, handler, shell>>
    BY <1>1 DEF Restart, hubVars, connVars, termVars
  <2>2. \A t \in Sessions : CausesOf(t)' = CausesOf(t) /\ Stage(t)' = Stage(t)
    BY <2>1, CausesKept DEF Stage
  <2>3. Service!Restart
    BY <1>1, <2>1, <2>2 DEF Restart, Service!Restart
  <2> QED  BY <2>3 DEF Service!Next
<1>2. CASE UNCHANGED vars
  <2>1. UNCHANGED <<target, hostOf, done, sessions, server, term, browser, handler, shell>>
    BY <1>2 DEF vars, hubVars, connVars, termVars
  <2>2. \A t \in Sessions : CausesOf(t)' = CausesOf(t) /\ Stage(t)' = Stage(t)
    BY <2>1, CausesKept DEF Stage
  <2> QED  BY <2>1, <2>2 DEF Service!serviceVars
<1> QED  BY <1>1, <1>2, ConnServes, TermServes, ReaderServes DEF Next

(* A terminal that nobody has opened is a new one.                         *)
LEMMA ServiceInit == Init => Service!Init
<1> SUFFICES ASSUME Init PROVE Service!Init
  OBVIOUS
<1>1. \A s \in Sessions : Stage(s) = "new"
  BY DEF Init, Stage
<1>2. \A s \in Sessions : CausesOf(s) = {}
  BY DEF Init, CausesOf
<1> QED  BY <1>1, <1>2 DEF Init, HubInit, Service!Init

(* The server keeps what TerminalService promises: a terminal is taken     *)
(* from the Hub behind its handler's back only by being told in the same   *)
(* moment, is told at most once and only for a cause of its own, ends only *)
(* when told or left by its browser, never comes back, and does not        *)
(* outlive the server process (agent_ws.go:77-131, terminal.go:23-107).    *)
THEOREM PromiseKept == Spec => TerminalsAsPromised
<1>1. Init => Service!Init
  BY ServiceInit
<1>2. ServiceInv /\ [Next]_vars => [Service!Next]_(Service!serviceVars)
  BY ServiceStep
<1> QED  BY <1>1, <1>2, ServiceInvariance, PTL DEF Spec, TerminalsAsPromised, Service!Spec
============================================================================
