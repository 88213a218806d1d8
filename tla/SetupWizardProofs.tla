------------------------- MODULE SetupWizardProofs -------------------------
(***************************************************************************)
(* Proofs about SetupWizard, for any accounts and any number of sign-ins,  *)
(* as long as the import is not clicked during a sign-in.                  *)
(***************************************************************************)
EXTENDS SetupWizard, SequenceTheorems, TLAPS

OneTask == ~ImportWhileBusy

Kind == {"authenticated", "twoFactorNeeded", "vaultsFound", "failed"}
Signal == [kind : Kind, of : Thread]

-----------------------------------------------------------------------------
(* The queue of signals: at most two, taken from the front. *)

LEMMA QueueTypes ==
    ASSUME TypeOK
    PROVE  /\ signals \in Seq(Signal)
           /\ Len(signals) \in Nat
           /\ signals = <<>> <=> Len(signals) = 0
           /\ \A i \in 1..Len(signals) : signals[i] \in Signal
  <1>1. signals \in Seq(Signal)
    BY DEF TypeOK, Signal, Kind
  <1>2. QED
    BY <1>1, EmptySeq, LenProperties

\* A slot takes the first signal; what is left is at most one more.
LEMMA TakeFirst ==
    ASSUME TypeOK, NEW k, Arrives(k)
    PROVE  /\ signals' \in Seq(Signal)
           /\ Len(signals) > 0
           /\ Len(signals') = Len(signals) - 1
           /\ Head(signals) = signals[1]
           /\ signals[1] \in Signal
           /\ signals[1].kind = k
           /\ \A i \in 1..Len(signals') : signals'[i] = signals[i + 1]
  <1>1. signals \in Seq(Signal) /\ signals # <<>> /\ signals' = Tail(signals)
    BY QueueTypes DEF Arrives
  <1>2. Len(signals) \in Nat /\ Len(signals) # 0
    BY <1>1, QueueTypes
  <1>3. Head(signals) = signals[1] /\ signals[1] \in Signal
    BY <1>1, <1>2, QueueTypes
  <1>4. QED
    BY <1>1, <1>2, <1>3, HeadTailProperties DEF Arrives

\* A thread adds its signal at the end.
LEMMA EmitLast ==
    ASSUME TypeOK, NEW t \in Thread, NEW k \in Kind, Emit(k, t)
    PROVE  /\ signals' \in Seq(Signal)
           /\ Len(signals') = Len(signals) + 1
           /\ signals'[Len(signals) + 1] = [kind |-> k, of |-> t]
           /\ \A i \in 1..Len(signals) : signals'[i] = signals[i]
  <1>1. signals \in Seq(Signal) /\ [kind |-> k, of |-> t] \in Signal
    BY QueueTypes DEF Signal
  <1>2. QED
    BY <1>1, AppendProperties DEF Emit

-----------------------------------------------------------------------------
(* The initial state *)

LEMMA InitTypes == Init => TypeOK
  <1> SUFFICES ASSUME Init PROVE TypeOK
    OBVIOUS
  <1>1. busy \in BOOLEAN /\ event \in BOOLEAN /\ folderFull \in BOOLEAN
    BY Zenon DEF Init
  <1>2. signals \in Seq([kind : {"authenticated", "twoFactorNeeded",
                                 "vaultsFound", "failed"}, of : Thread])
    BY EmptySeq DEF Init
  <1>3. config \in [from : {"nowhere", "wizard", "import"},
                    account : Account \cup {None}, mode : Modes]
    BY DEF Init, NoConfig, Modes
  <1>4. QED
    BY <1>1, <1>2, <1>3 DEF Init, TypeOK, Finished

LEMMA InitInStep == Init => DialogInStep
  <1> SUFFICES ASSUME Init PROVE DialogInStep
    OBVIOUS
  <1>1. TypeOK /\ Len(signals) = 0 /\ ~event
    BY InitTypes, EmptySeq DEF Init
  <1>2. QED
    BY <1>1 DEF Init, DialogInStep, SavedWasAccepted, OneAtATime, SignalsInOrder,
       OneAccount, Quiet, Finished, NoConfig

-----------------------------------------------------------------------------
(* The user.  Nothing here touches a thread at work or a signal. *)

LEMMA UserTypes ==
    ASSUME DialogInStep, User
    PROVE  TypeOK'
  <1> USE WizardAssumption DEF TypeOK
  <1> TypeOK
    BY DEF DialogInStep
  <1>0. busy' \in BOOLEAN /\ event' \in BOOLEAN /\ folderFull' \in BOOLEAN
    <2> busy \in BOOLEAN /\ event \in BOOLEAN /\ folderFull \in BOOLEAN
      OBVIOUS
    <2> HIDE DEF TypeOK
    <2> USE DEF dialog, prompt
    <2>1. CASE \E a \in Account : TypeAccount(a)
      BY <2>1, Zenon DEF TypeAccount
    <2>2. CASE \E t \in Thread : SignIn(t)
      BY <2>2, Zenon DEF SignIn
    <2>3. CASE \E c \in {"right", "wrong"} : EnterCode(c)
      BY <2>3, Zenon DEF EnterCode
    <2>4. CASE ChooseVault \/ ChooseFolder
      BY <2>4, Zenon DEF ChooseVault, ChooseFolder
    <2>5. CASE \E mode \in Modes : ChooseFirstSync(mode)
      BY <2>5, Zenon DEF ChooseFirstSync
    <2>6. CASE FolderChanges
      <3>1. folderFull' = ~folderFull /\ UNCHANGED <<busy, event>>
        BY <2>6, Zenon DEF FolderChanges
      <3>2. QED
        BY <3>1
    <2>7. CASE Cancel \/ Import
      BY <2>7, Zenon DEF Cancel, Import
    <2>8. QED
      BY <2>1, <2>2, <2>3, <2>4, <2>5, <2>6, <2>7, Zenon DEF User
  <1>1. ASSUME NEW a \in Account, TypeAccount(a) PROVE TypeOK'
    BY <1>1 DEF TypeAccount, dialog, prompt, stored
  <1>2. ASSUME NEW t \in Thread, SignIn(t) PROVE TypeOK'
    BY <1>0, <1>2 DEF SignIn, Continue, Becomes, Active, prompt, stored
  <1>3. ASSUME NEW c \in {"right", "wrong"}, EnterCode(c) PROVE TypeOK'
    BY <1>0, <1>3 DEF EnterCode, fields, stored
  <1>4. CASE ChooseVault \/ Cancel \/ FolderChanges
    BY <1>0, <1>4 DEF ChooseVault, Cancel, FolderChanges, dialog, fields, prompt, stored
  <1>5. ASSUME NEW mode \in Modes, Finish(mode)
        PROVE  /\ config' \in [from : {"nowhere", "wizard", "import"},
                               account : Account \cup {None}, mode : Modes]
               /\ shown' = "accepted"
    BY <1>5 DEF Finish, Modes
  <1>6. CASE ChooseFolder
    BY <1>0, <1>5, <1>6 DEF ChooseFolder, fields, prompt, Modes
  <1>7. ASSUME NEW mode \in Modes, ChooseFirstSync(mode) PROVE TypeOK'
    BY <1>0, <1>5, <1>7 DEF ChooseFirstSync, fields, prompt
  <1>8. CASE Import
    <2>1. config' = config \/ config' = [from |-> "import", account |-> Legacy, mode |-> "adopt"]
      BY <1>8 DEF Import, ImportFromIObsi
    <2>2. config' \in [from : {"nowhere", "wizard", "import"},
                       account : Account \cup {None}, mode : Modes]
      BY <2>1 DEF Modes
    <2>3. passwords' \subseteq Account /\ shown' \in {"open", "accepted", "rejected"}
      BY <1>8 DEF Import, ImportFromIObsi
    <2>4. QED
      BY <1>0, <1>8, <2>2, <2>3 DEF Import, fields, prompt
  <1>9. QED
    BY <1>1, <1>2, <1>3, <1>4, <1>6, <1>7, <1>8 DEF User

\* A page turned, a field filled in: no thread and no signal is touched.
LEMMA PagesKeep ==
    ASSUME DialogInStep, OneTask, TypeOK',
           \/ \E a \in Account : TypeAccount(a)
           \/ \E c \in {"right", "wrong"} : EnterCode(c)
           \/ ChooseVault \/ FolderChanges \/ Cancel \/ Import
           \/ ChooseFolder \/ \E mode \in Modes : ChooseFirstSync(mode)
    PROVE  DialogInStep'
  <1> USE WizardAssumption
  <1>1. /\ UNCHANGED <<thread, signsIn, signals, account, api, accepted>>
        /\ passwords' \subseteq passwords \cup {Legacy}
    BY DEF TypeAccount, EnterCode, ChooseVault, FolderChanges, Cancel, Import, ChooseFolder,
       ChooseFirstSync, ImportFromIObsi, dialog, fields, prompt, stored, Finish
  <1>2. SavedWasAccepted'
    BY <1>1 DEF DialogInStep, SavedWasAccepted
  <1>3. CASE \E a \in Account : TypeAccount(a)
    <2>1. UNCHANGED <<page, busy, event, config>>
      BY <1>3 DEF TypeAccount, dialog, prompt, stored
    <2>2. QED
      BY <1>1, <1>2, <2>1 DEF DialogInStep, OneAtATime, SignalsInOrder, OneAccount, Quiet
  <1>4. CASE \E c \in {"right", "wrong"} : EnterCode(c)
    <2>1. page = "twofa" /\ UNCHANGED <<page, config>>
      BY <1>4 DEF EnterCode, Continue, stored
    <2>2. QED
      BY <1>1, <1>2, <2>1 DEF DialogInStep, OneAtATime, SignalsInOrder, OneAccount, Quiet
  <1>5. CASE FolderChanges \/ Cancel
    <2>1. UNCHANGED <<page, busy, event, config>>
      BY <1>5 DEF FolderChanges, Cancel, dialog, prompt, stored
    <2>2. QED
      BY <1>1, <1>2, <2>1 DEF DialogInStep, OneAtATime, SignalsInOrder, OneAccount, Quiet
  <1>6. CASE ChooseVault
    <2>1. page = "vault" /\ page' = "folder" /\ UNCHANGED <<busy, event, config>>
      BY <1>6 DEF ChooseVault, Continue, prompt, stored
    <2>2. QED
      BY <1>1, <1>2, <2>1 DEF DialogInStep, OneAtATime, SignalsInOrder, OneAccount, Quiet
  <1>7. CASE Import
    <2>1. /\ page = "credentials" /\ page' = page
          /\ ~busy
          /\ UNCHANGED event
      BY <1>7 DEF Import, OneTask, prompt
    <2>2. config' = config \/ config'.from = "import"
      BY <1>7 DEF Import, ImportFromIObsi
    <2>3. QED
      BY <1>1, <1>2, <2>1, <2>2 DEF DialogInStep, OneAtATime, SignalsInOrder, OneAccount, Quiet
  <1>8. CASE ChooseFolder \/ \E mode \in Modes : ChooseFirstSync(mode)
    <2>1. /\ page \in {"folder", "firstSync"}
          /\ page' \in {"folder", "firstSync"}
          /\ UNCHANGED <<busy, event>>
      BY <1>8 DEF ChooseFolder, ChooseFirstSync, Continue, prompt
    <2>2. config' = config \/ config'.account = account
      BY <1>8 DEF ChooseFolder, ChooseFirstSync, Finish
    <2>3. QED
      BY <1>1, <1>2, <2>1, <2>2 DEF DialogInStep, OneAtATime, SignalsInOrder, OneAccount, Quiet
  <1>9. QED
    BY <1>3, <1>4, <1>5, <1>6, <1>7, <1>8

\* A sign-in starts when nothing else is under way.
LEMMA SignInKeeps ==
    ASSUME DialogInStep, NEW t \in Thread, SignIn(t), TypeOK'
    PROVE  DialogInStep'
  <1>1. /\ page = "credentials" /\ ~busy /\ page' = page /\ busy' /\ typed # None
        /\ Quiet /\ Len(signals) = 0
        /\ UNCHANGED <<signals, api, event, accepted, passwords, config>>
        /\ account' = typed
        /\ thread' = [thread EXCEPT ![t] = "signing"]
        /\ signsIn' = [signsIn EXCEPT ![t] = typed]
        /\ thread \in [Thread -> Active \cup Finished \cup {"listing"}]
        /\ signsIn \in [Thread -> Account \cup {None}]
    BY DEF SignIn, Continue, Becomes, prompt, stored, DialogInStep, OneAtATime, TypeOK
  <1>2. \A u \in Thread : thread'[u] \notin Finished => u = t /\ thread'[u] = "signing"
    BY <1>1 DEF Quiet, Finished, Active
  <1>3. OneAtATime' /\ SignalsInOrder'
    BY <1>1, <1>2 DEF OneAtATime, SignalsInOrder, DialogInStep
  <1>4. OneAccount'
    BY <1>1, <1>2 DEF OneAccount, DialogInStep, Finished
  <1>5. QED
    BY <1>1, <1>3, <1>4 DEF DialogInStep, SavedWasAccepted

-----------------------------------------------------------------------------
(* The threads *)

\* What a thread at work knows of the dialog.
LEMMA AtWork ==
    ASSUME DialogInStep, NEW t \in Thread, thread[t] \notin Finished
    PROVE  /\ ~Quiet
           /\ \A u \in Thread : u # t => thread[u] \in Finished
           /\ signsIn[t] = account /\ account # None
           /\ page \notin {"vault", "folder", "firstSync"}
           /\ page = "credentials" => busy
           /\ config.from # "wizard"
           /\ Len(signals) \in {0, 1}
           /\ thread[t] # "waiting" => Len(signals) = 0
           /\ Len(signals) = 1 => /\ signals[1].kind = "twoFactorNeeded"
                                  /\ page = "credentials"
  <1>1. ~Quiet /\ \A u \in Thread : u # t => thread[u] \in Finished
    BY DEF DialogInStep, OneAtATime, Quiet
  <1>2. Len(signals) \in Nat
    BY QueueTypes DEF DialogInStep
  <1>3. Len(signals) \in {0, 1}
    <2>1. Len(signals) \in 0..2
      BY DEF DialogInStep, SignalsInOrder
    <2>2. Len(signals) # 2
      BY <1>1 DEF DialogInStep, SignalsInOrder
    <2>3. QED
      BY <1>2, <2>1, <2>2
  <1>4. Len(signals) = 1 => /\ signals[1].kind = "twoFactorNeeded"
                            /\ page = "credentials"
                            /\ thread[t] = "waiting"
    BY <1>1 DEF DialogInStep, SignalsInOrder, Finished
  <1>5. busy \in BOOLEAN
    BY DEF DialogInStep, TypeOK
  <1>6. QED
    BY <1>1, <1>3, <1>4, <1>5 DEF DialogInStep, OneAtATime, OneAccount

LEMMA WorkTypes ==
    ASSUME DialogInStep, Work
    PROVE  TypeOK'
  <1> USE DEF DialogInStep, TypeOK
  <1>1. PICK t \in Thread : \/ SigningIn(t) \/ ClearCode(t) \/ WakeUp(t)
                            \/ CodeTimeout(t) \/ ReadCode(t) \/ FindVaults(t)
    BY DEF Work
  <1>2. event' \in BOOLEAN
    <2>1. CASE ClearCode(t)
      BY <2>1, Zenon DEF ClearCode
    <2>2. CASE ~ClearCode(t)
      BY <1>1, <2>2 DEF SigningIn, WakeUp, CodeTimeout, ReadCode, FindVaults, prompt
    <2>3. QED
      BY <2>1, <2>2
  <1>3. signals' \in Seq(Signal)
    <2>1. signals' = signals \/ \E k \in Kind : Emit(k, t)
      BY <1>1 DEF SigningIn, ClearCode, WakeUp, CodeTimeout, ReadCode, FindVaults, Kind
    <2>2. QED
      BY <2>1, QueueTypes, EmitLast
  <1>4. thread' \in [Thread -> Active \cup Finished \cup {"listing"}]
    BY <1>1 DEF SigningIn, ClearCode, WakeUp, CodeTimeout, ReadCode, FindVaults, Becomes,
       Active, Finished
  <1>5. accepted' \subseteq Account
    <2>1. accepted' = accepted \/ (accepted' = accepted \cup {account} /\ account # None)
      BY <1>1, AtWork DEF SigningIn, ClearCode, WakeUp, CodeTimeout, ReadCode, FindVaults,
         stored, Finished
    <2>2. QED
      BY <2>1
  <1>6. QED
    BY <1>1, <1>2, <1>3, <1>4, <1>5
       DEF SigningIn, ClearCode, WakeUp, CodeTimeout, ReadCode, FindVaults, dialog, fields,
           prompt, stored, Signal, Kind

\* A thread comes to its end and says so.
LEMMA EndKeeps ==
    ASSUME DialogInStep, TypeOK', NEW t \in Thread, thread[t] \notin Finished,
           NEW k \in {"authenticated", "vaultsFound", "failed"}, Emit(k, t),
           Becomes(t, "done"),
           Len(signals) = 1 => k = "failed",
           k = "authenticated" => account \in accepted',
           k = "vaultsFound" => thread[t] = "listing",
           accepted \subseteq accepted',
           UNCHANGED <<dialog, fields, signsIn, event, passwords, config>>
    PROVE  DialogInStep'
  <1>1. /\ thread' = [thread EXCEPT ![t] = "done"]
        /\ thread \in [Thread -> Active \cup Finished \cup {"listing"}]
    BY DEF Becomes, DialogInStep, TypeOK
  <1>2. Quiet'
    BY <1>1, AtWork DEF Quiet, Finished
  <1>3. /\ Len(signals') = Len(signals) + 1
        /\ signals'[Len(signals) + 1] = [kind |-> k, of |-> t]
        /\ \A i \in 1..Len(signals) : signals'[i] = signals[i]
        /\ Len(signals) \in {0, 1}
    BY EmitLast, AtWork DEF Kind, DialogInStep
  <1>4. SignalsInOrder'
    BY <1>2, <1>3, AtWork DEF SignalsInOrder, dialog
  <1>5. OneAtATime'
    BY <1>1, <1>2, AtWork DEF OneAtATime, Quiet, dialog, Finished, DialogInStep
  <1>6. OneAccount'
    <2>1. \A i \in 1..Len(signals') :
             /\ signsIn[signals'[i].of] = account
             /\ signals'[i].kind = "authenticated" => account \in accepted'
             /\ signals'[i].kind = "vaultsFound" => api = signals'[i].of /\ account \in accepted'
      <3>1. CASE Len(signals) = 0
        BY <1>3, <3>1, AtWork DEF DialogInStep, OneAccount
      <3>2. CASE Len(signals) = 1
        BY <1>3, <3>2, AtWork DEF DialogInStep, OneAccount
      <3>3. QED
        BY <1>3, <3>1, <3>2
    <2>2. QED
      BY <1>2, <2>1, AtWork DEF OneAccount, Quiet, DialogInStep, dialog, fields, Finished
  <1>7. QED
    BY <1>4, <1>5, <1>6 DEF DialogInStep, SavedWasAccepted

LEMMA WorkKeeps ==
    ASSUME DialogInStep, Work
    PROVE  DialogInStep'
  <1>1. TypeOK'
    BY WorkTypes
  <1> USE DEF Finished
  <1>2. ASSUME NEW t \in Thread, SigningIn(t) PROVE DialogInStep'
    <2>1. thread[t] \notin Finished /\ Len(signals) = 0
      BY <1>2, AtWork DEF SigningIn
    <2>2. CASE /\ Becomes(t, "done")
               /\ accepted' = accepted \cup {signsIn[t]}
               /\ Emit("authenticated", t)
      <3>1. account \in accepted' /\ accepted \subseteq accepted'
        BY <2>1, <2>2, AtWork
      <3>2. QED
        BY <1>1, <1>2, <2>1, <2>2, <3>1, EndKeeps DEF SigningIn, prompt
    <2>5. CASE Becomes(t, "done") /\ Emit("failed", t) /\ UNCHANGED accepted
      BY <1>1, <1>2, <2>1, <2>5, EndKeeps DEF SigningIn, prompt
    <2>3. CASE Becomes(t, "clearing") /\ UNCHANGED <<accepted, signals>>
      <3>1. /\ thread' = [thread EXCEPT ![t] = "clearing"]
            /\ thread \in [Thread -> Active \cup Finished \cup {"listing"}]
            /\ page = "credentials" /\ ~Quiet /\ ~event
        BY <1>2, <2>1, <2>3 DEF SigningIn, Becomes, DialogInStep, TypeOK, OneAtATime, Quiet
      <3>2. OneAtATime' /\ SignalsInOrder'
        BY <1>2, <2>1, <2>3, <3>1, AtWork DEF SigningIn, OneAtATime, SignalsInOrder, Quiet,
           DialogInStep, dialog, prompt
      <3>3. OneAccount' /\ SavedWasAccepted'
        BY <1>2, <2>1, <2>3, <3>1, AtWork DEF SigningIn, OneAccount, SavedWasAccepted,
           DialogInStep, dialog, fields
      <3>4. QED
        BY <1>1, <3>2, <3>3 DEF DialogInStep
    <2>4. QED
      BY <1>2, <2>2, <2>3, <2>5 DEF SigningIn
  <1>3. ASSUME NEW t \in Thread, ClearCode(t) PROVE DialogInStep'
    <2>1. /\ thread[t] \notin Finished /\ Len(signals) = 0 /\ page = "credentials"
          /\ thread' = [thread EXCEPT ![t] = "waiting"]
          /\ thread \in [Thread -> Active \cup Finished \cup {"listing"}]
          /\ UNCHANGED <<dialog, fields, signsIn, stored>>
          /\ ~event'
      BY <1>3, AtWork DEF ClearCode, Becomes, DialogInStep, TypeOK, OneAtATime
    <2>2. /\ Len(signals') = 1
          /\ signals'[1] = [kind |-> "twoFactorNeeded", of |-> t]
      <3>1. /\ Len(signals') = Len(signals) + 1
            /\ signals'[Len(signals) + 1] = [kind |-> "twoFactorNeeded", of |-> t]
        BY <1>3, EmitLast DEF ClearCode, Kind, DialogInStep
      <3>2. QED
        BY <2>1, <3>1
    <2>3. ~Quiet' /\ thread'[t] = "waiting"
      BY <2>1 DEF Quiet
    <2>4. OneAtATime' /\ SignalsInOrder'
      BY <2>1, <2>2, <2>3, AtWork DEF OneAtATime, SignalsInOrder, DialogInStep, dialog
    <2>5. OneAccount' /\ SavedWasAccepted'
      BY <2>1, <2>2, AtWork DEF OneAccount, SavedWasAccepted, DialogInStep, dialog, fields,
         stored
    <2>6. QED
      BY <1>1, <2>4, <2>5 DEF DialogInStep
  <1>4. ASSUME NEW t \in Thread, WakeUp(t) PROVE DialogInStep'
    <2>1. /\ thread[t] = "waiting" /\ event
          /\ thread' = [thread EXCEPT ![t] = "woken"]
          /\ thread \in [Thread -> Active \cup Finished \cup {"listing"}]
          /\ UNCHANGED <<dialog, fields, signsIn, prompt, signals, stored>>
      BY <1>4 DEF WakeUp, Becomes, DialogInStep, TypeOK
    <2>2. Len(signals) = 0 /\ page # "credentials"
      BY <2>1, AtWork DEF DialogInStep, OneAtATime
    <2>3. OneAtATime' /\ SignalsInOrder'
      BY <2>1, <2>2, AtWork DEF OneAtATime, SignalsInOrder, Quiet, DialogInStep, dialog, prompt
    <2>4. OneAccount' /\ SavedWasAccepted'
      BY <2>1, <2>2, AtWork DEF OneAccount, SavedWasAccepted, DialogInStep, dialog, fields,
         stored
    <2>5. QED
      BY <1>1, <2>3, <2>4 DEF DialogInStep
  <1>5. ASSUME NEW t \in Thread, CodeTimeout(t) PROVE DialogInStep'
    BY <1>1, <1>5, EndKeeps DEF CodeTimeout, prompt, stored
  <1>6. ASSUME NEW t \in Thread, ReadCode(t) PROVE DialogInStep'
    <2>1. thread[t] \notin Finished /\ Len(signals) = 0 /\ signsIn[t] = account
      BY <1>6, AtWork DEF ReadCode
    <2>2. QED
      BY <1>1, <1>6, <2>1, EndKeeps DEF ReadCode, prompt
  <1>7. ASSUME NEW t \in Thread, FindVaults(t) PROVE DialogInStep'
    <2>1. thread[t] \notin Finished /\ Len(signals) = 0
      BY <1>7, AtWork DEF FindVaults
    <2>2. QED
      BY <1>1, <1>7, <2>1, EndKeeps DEF FindVaults, prompt, stored
  <1>8. QED
    BY <1>2, <1>3, <1>4, <1>5, <1>6, <1>7 DEF Work

-----------------------------------------------------------------------------
(* The slots *)

LEMMA SlotTypes ==
    ASSUME DialogInStep, Slots
    PROVE  TypeOK'
  <1> TypeOK
    BY DEF DialogInStep
  <1>1. PICK k \in Kind : Arrives(k)
    BY DEF Slots, OnAuthenticated, OnTwofaNeeded, OnVaults, OnFailed, Kind
  <1>2. signals' \in Seq(Signal) /\ Head(signals) \in Signal
    BY <1>1, TakeFirst
  <1>3. Head(signals).of \in Thread
    BY <1>2 DEF Signal
  <1>4. busy' \in BOOLEAN
    BY Zenon DEF Slots, OnAuthenticated, OnTwofaNeeded, OnVaults, OnFailed
  <1>5. CASE OnAuthenticated
    <2>1. account \in accepted
      BY <1>5, TakeFirst DEF OnAuthenticated, DialogInStep, OneAccount
    <2>2. QED
      BY <1>2, <1>3, <1>4, <1>5, <2>1 DEF OnAuthenticated, TypeOK, Becomes, Signal, Kind,
         prompt
  <1>6. CASE OnTwofaNeeded \/ OnVaults \/ OnFailed
    BY <1>2, <1>4, <1>6 DEF OnTwofaNeeded, OnVaults, OnFailed, TypeOK, Signal, Kind,
       fields, prompt, stored
  <1>7. QED
    BY <1>5, <1>6 DEF Slots

\* What the first signal says of the threads.
LEMMA Arrived ==
    ASSUME DialogInStep, NEW k \in Kind, Arrives(k)
    PROVE  /\ Len(signals) \in {1, 2}
           /\ Len(signals') = Len(signals) - 1
           /\ page \notin {"vault", "folder", "firstSync"}
           /\ config.from # "wizard"
           /\ signals[1].kind = k /\ Head(signals) = signals[1] /\ signals[1].of \in Thread
           /\ Len(signals) = 2 => Quiet /\ signals'[1] = signals[2] /\ signals[2].kind = "failed"
           /\ k = "twoFactorNeeded" => page = "credentials"
           /\ Len(signals) = 1 /\ k = "twoFactorNeeded" => ~Quiet
  <1>1. /\ Len(signals) > 0
        /\ Len(signals') = Len(signals) - 1
        /\ Head(signals) = signals[1]
        /\ signals[1] \in Signal
        /\ signals[1].kind = k
        /\ \A i \in 1..Len(signals') : signals'[i] = signals[i + 1]
    BY TakeFirst DEF DialogInStep
  <1>2. Len(signals) \in Nat
    BY QueueTypes DEF DialogInStep
  <1>3. Len(signals) \in 0..2
    BY DEF DialogInStep, SignalsInOrder
  <1>4. Len(signals) \in {1, 2}
    BY <1>1, <1>2, <1>3
  <1>5. Len(signals) = 2 => signals'[1] = signals[2]
    BY <1>1
  <1>6. signals[1].of \in Thread
    BY <1>1 DEF Signal
  <1>7. page \notin {"vault", "folder", "firstSync"} /\ config.from # "wizard"
    BY <1>4 DEF DialogInStep, OneAtATime, OneAccount
  <1>8. QED
    BY <1>1, <1>4, <1>5, <1>6, <1>7 DEF DialogInStep, SignalsInOrder

\* All but the request for a code come when nothing else is under way.
LEMMA ArrivedAlone ==
    ASSUME DialogInStep, NEW k \in Kind, Arrives(k), k # "twoFactorNeeded"
    PROVE  /\ Quiet /\ Len(signals) = 1 /\ Len(signals') = 0
           /\ signals[1].of \in Thread /\ Head(signals) = signals[1]
           /\ signals[1].kind = k
           /\ page \notin {"vault", "folder", "firstSync"} /\ config.from # "wizard"
  <1>1. /\ Len(signals) \in {1, 2}
        /\ Len(signals') = Len(signals) - 1
        /\ signals[1].of \in Thread /\ Head(signals) = signals[1]
        /\ signals[1].kind = k
        /\ page \notin {"vault", "folder", "firstSync"} /\ config.from # "wizard"
    BY Arrived
  <1>2. Len(signals) = 1 /\ Quiet
    BY <1>1 DEF DialogInStep, SignalsInOrder
  <1>3. QED
    BY <1>1, <1>2

LEMMA SlotsKeep ==
    ASSUME DialogInStep, Slots
    PROVE  DialogInStep'
  <1>1. TypeOK'
    BY SlotTypes
  <1> USE DEF Finished
  <1>2. CASE OnAuthenticated
    <2>1. /\ Quiet /\ Len(signals) = 1 /\ Len(signals') = 0
          /\ signals[1].of \in Thread /\ Head(signals) = signals[1]
          /\ signals[1].kind = "authenticated"
          /\ page \notin {"vault", "folder", "firstSync"} /\ config.from # "wizard"
      BY <1>2, ArrivedAlone DEF OnAuthenticated, Kind
    <2>2. account \in accepted /\ account # None /\ signsIn[signals[1].of] = account
      <3>1. account \in accepted /\ signsIn[signals[1].of] = account
        BY <2>1 DEF DialogInStep, OneAccount
      <3>2. accepted \subseteq Account
        BY DEF DialogInStep, TypeOK
      <3>3. QED
        BY <3>1, <3>2, WizardAssumption
    <2>3. /\ busy' /\ api' = signals[1].of
          /\ passwords' = passwords \cup {account}
          /\ thread' = [thread EXCEPT ![signals[1].of] = "listing"]
          /\ thread \in [Thread -> Active \cup Finished \cup {"listing"}]
          /\ UNCHANGED <<page, account, signsIn, event, accepted, config>>
      BY <1>2, <2>1 DEF OnAuthenticated, Becomes, prompt, DialogInStep, TypeOK
    <2>4. \A t \in Thread : thread'[t] \notin Finished =>
              t = signals[1].of /\ thread'[t] = "listing"
      BY <2>1, <2>3 DEF Quiet
    <2>5. OneAtATime'
      BY <2>1, <2>3, <2>4 DEF OneAtATime, DialogInStep
    <2>6. SignalsInOrder'
      BY <2>1 DEF SignalsInOrder
    <2>7. OneAccount'
      BY <2>1, <2>2, <2>3, <2>4 DEF OneAccount, DialogInStep
    <2>8. SavedWasAccepted'
      BY <2>2, <2>3 DEF SavedWasAccepted, DialogInStep
    <2>9. QED
      BY <1>1, <2>5, <2>6, <2>7, <2>8 DEF DialogInStep
  <1>3. CASE OnTwofaNeeded
    <2>1. /\ ~busy' /\ page' = "twofa" /\ page = "credentials"
          /\ UNCHANGED <<fields, thread, signsIn, event, stored>>
          /\ config.from # "wizard"
          /\ Len(signals) \in {1, 2} /\ Len(signals') = Len(signals) - 1
          /\ Len(signals) = 2 => Quiet /\ signals'[1] = signals[2] /\ signals[2].kind = "failed"
          /\ Len(signals) = 1 => ~Quiet
      BY <1>3, Arrived DEF OnTwofaNeeded, Kind, prompt
    <2>2. Len(signals) = 1 => \E t \in Thread : thread[t] = "waiting"
      BY <2>1 DEF DialogInStep, SignalsInOrder
    <2>3. OneAtATime'
      <3>1. \A t \in Thread : thread[t] \notin {"signing", "clearing"}
        BY <2>1, <2>2 DEF DialogInStep, OneAtATime, Quiet
      <3>2. QED
        BY <2>1, <3>1 DEF OneAtATime, DialogInStep, Quiet
    <2>4. SignalsInOrder'
      <3>1. CASE Len(signals) = 1
        <4>1. Len(signals') = 0
          BY <2>1, <3>1
        <4>2. QED
          BY <4>1 DEF SignalsInOrder
      <3>2. CASE Len(signals) = 2
        <4>1. Len(signals') = 1 /\ signals'[1].kind = "failed"
          BY <2>1, <3>2
        <4>2. Quiet'
          BY <2>1, <3>2 DEF Quiet
        <4>3. QED
          BY <4>1, <4>2 DEF SignalsInOrder
      <3>3. QED
        BY <2>1, <3>1, <3>2
    <2>5. OneAccount' /\ SavedWasAccepted'
      BY <2>1 DEF OneAccount, SavedWasAccepted, DialogInStep, fields, stored
    <2>6. QED
      BY <1>1, <2>3, <2>4, <2>5 DEF DialogInStep
  <1>4. CASE OnVaults \/ OnFailed
    <2>1. /\ Quiet /\ Len(signals) = 1 /\ Len(signals') = 0
          /\ signals[1].of \in Thread
          /\ page \notin {"vault", "folder", "firstSync"} /\ config.from # "wizard"
          /\ ~busy' /\ UNCHANGED <<fields, thread, signsIn, event, stored>>
      <3>1. CASE OnVaults
        BY <3>1, ArrivedAlone DEF OnVaults, Kind, prompt, stored
      <3>2. CASE OnFailed
        BY <3>2, ArrivedAlone DEF OnFailed, Kind, prompt, stored
      <3>3. QED
        BY <1>4, <3>1, <3>2
    <2>2. \/ page' = page
          \/ page' = "vault" /\ signals[1].kind = "vaultsFound"
      BY <1>4, Arrived DEF OnVaults, OnFailed, Kind
    <2>3. OneAtATime' /\ SignalsInOrder'
      BY <2>1, <2>2 DEF OneAtATime, SignalsInOrder, Quiet, DialogInStep
    <2>4. OneAccount' /\ SavedWasAccepted'
      BY <2>1, <2>2, WizardAssumption DEF OneAccount, SavedWasAccepted, DialogInStep, fields, stored, Quiet
    <2>5. QED
      BY <1>1, <2>3, <2>4 DEF DialogInStep
  <1>5. QED
    BY <1>2, <1>3, <1>4 DEF Slots

-----------------------------------------------------------------------------
(* The theorems *)

LEMMA StepInStep == OneTask /\ DialogInStep /\ [Next]_vars => DialogInStep'
  <1> SUFFICES ASSUME OneTask, DialogInStep, [Next]_vars PROVE DialogInStep'
    OBVIOUS
  <1>1. CASE Work
    BY <1>1, WorkKeeps
  <1>2. CASE Slots
    BY <1>2, SlotsKeep
  <1>3. CASE User
    BY <1>3, UserTypes, SignInKeeps, PagesKeep DEF User
  <1>4. CASE UNCHANGED vars
    BY <1>4 DEF vars, dialog, fields, prompt, stored, DialogInStep, TypeOK, SavedWasAccepted,
       OneAtATime, SignalsInOrder, OneAccount, Quiet
  <1>5. QED
    BY <1>1, <1>2, <1>3, <1>4 DEF Next

\* What the dialog, the threads and the queue agree on, for any number of accounts
\* and sign-ins.
THEOREM DialogStaysInStep ==
    ASSUME OneTask
    PROVE  Spec => []DialogInStep
  <1>1. Init => DialogInStep
    BY InitInStep
  <1>2. DialogInStep /\ [Next]_vars => DialogInStep'
    BY StepInStep
  <1>3. QED
    BY <1>1, <1>2, PTL DEF Spec

\* No password is stored that Apple has not accepted, but for the one imported.
THEOREM OnlyAcceptedIsSaved ==
    ASSUME OneTask
    PROVE  Spec => []SavedWasAccepted
  <1>1. DialogInStep => SavedWasAccepted
    BY DEF DialogInStep
  <1>2. QED
    BY <1>1, DialogStaysInStep, PTL

\* No two sign-ins wait for a code at the same time.
THEOREM OneSignInAtATime ==
    ASSUME OneTask
    PROVE  Spec => []OneSignIn
  <1>1. DialogInStep => OneSignIn
    BY DEF DialogInStep, OneAtATime, OneSignIn, Active, Finished
  <1>2. QED
    BY <1>1, DialogStaysInStep, PTL

\* The configuration a finished dialog leaves is that of the account it signed in.
THEOREM FinishedIsSignedIn ==
    ASSUME OneTask
    PROVE  Spec => []ConfigIsSignedIn
  <1>1. DialogInStep => ConfigIsSignedIn
    BY DEF DialogInStep, OneAccount, ConfigIsSignedIn
  <1>2. QED
    BY <1>1, DialogStaysInStep, PTL
=============================================================================
