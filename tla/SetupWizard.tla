---------------------------- MODULE SetupWizard ----------------------------
(***************************************************************************)
(* The setup wizard (src/gui/wizard.py): a dialog on the GUI thread, the   *)
(* sign-ins and vault listings it starts on threads of their own, and the  *)
(* three ways they meet: signals queued for the GUI thread, the prompt     *)
(* that hands a code to the waiting sign-in (src/gui/session.py), and the  *)
(* import of an iObsi installation (src/migrate.py) on the same page.      *)
(*                                                                         *)
(* An account stands for an Apple ID with its password; how a sign-in ends *)
(* is module SignIn.                                                       *)
(***************************************************************************)
EXTENDS Naturals, Sequences

CONSTANTS
    Account,          \* what a user may type into the two fields
    Legacy,           \* the account of the iObsi installation
    None,
    Thread,           \* sign-ins started from this dialog
    ImportWhileBusy   \* the import is clicked during a sign-in, too

ASSUME WizardAssumption == /\ Legacy \in Account
                           /\ None \notin Account \cup Thread
                           /\ ImportWhileBusy \in BOOLEAN

VARIABLES
    page, busy,    \* the page shown; the progress bar, Continue disabled
    shown,         \* "open", or how the dialog was closed
    typed,         \* the account in the fields
    account,       \* _email and _password
    api,           \* the thread whose service the dialog holds
    thread,        \* what each thread does
    signsIn,       \* the account each thread signs in to
    code, event,   \* TwoFactorPrompt: _code and _event
    signals,       \* queued for the GUI thread
    accepted,      \* accounts Apple has accepted from this dialog
    passwords,     \* accounts with a password in the credential store
    folderFull,    \* the chosen folder has files in it
    config         \* what is in config.json

dialog == <<page, busy, shown>>
fields == <<typed, account, api>>
prompt == <<code, event>>
stored == <<accepted, passwords, config>>
vars == <<dialog, fields, thread, signsIn, prompt, signals, stored, folderFull>>

Modes == {"adopt", "prefer-remote", "prefer-local"}
NoConfig == [from |-> "nowhere", account |-> None, mode |-> "adopt"]

Active == {"signing", "clearing", "waiting", "woken", "verifying"}
Finished == {"unused", "done"}

TypeOK ==
    /\ page \in {"credentials", "twofa", "vault", "folder", "firstSync"}
    /\ busy \in BOOLEAN
    /\ shown \in {"open", "accepted", "rejected"}
    /\ {typed, account} \subseteq Account \cup {None}
    /\ api \in Thread \cup {None}
    /\ thread \in [Thread -> Active \cup Finished \cup {"listing"}]
    /\ signsIn \in [Thread -> Account \cup {None}]
    /\ code \in {"none", "right", "wrong"}
    /\ event \in BOOLEAN
    /\ signals \in Seq([kind : {"authenticated", "twoFactorNeeded",
                                "vaultsFound", "failed"}, of : Thread])
    /\ passwords \subseteq Account
    /\ accepted \subseteq Account
    /\ folderFull \in BOOLEAN
    /\ config \in [from : {"nowhere", "wizard", "import"},
                   account : Account \cup {None}, mode : Modes]

Init ==
    /\ page = "credentials"
    /\ busy = FALSE
    /\ shown = "open"
    /\ typed = None
    /\ account = None
    /\ api = None
    /\ thread = [t \in Thread |-> "unused"]
    /\ signsIn = [t \in Thread |-> None]
    /\ code = "none"
    /\ event = FALSE
    /\ signals = <<>>
    /\ accepted = {}
    /\ passwords = {}
    /\ folderFull \in BOOLEAN
    /\ config = NoConfig

Emit(kind, t) == signals' = Append(signals, [kind |-> kind, of |-> t])
Becomes(t, s) == thread' = [thread EXCEPT ![t] = s]

-----------------------------------------------------------------------------
(* The sign-in threads *)

\* authenticate() returns, fails, or needs a code from TwoFactorPrompt.request.
SigningIn(t) ==
    /\ thread[t] = "signing"
    /\ \/ /\ Becomes(t, "done")
          /\ accepted' = accepted \cup {signsIn[t]}
          /\ Emit("authenticated", t)
       \/ /\ Becomes(t, "done")
          /\ Emit("failed", t)
          /\ UNCHANGED accepted
       \/ /\ Becomes(t, "clearing")
          /\ UNCHANGED <<accepted, signals>>
    /\ UNCHANGED <<dialog, fields, signsIn, prompt, passwords, config, folderFull>>

\* request: the code and the event of an earlier request are cleared, then the
\* dialog is told.
ClearCode(t) ==
    /\ thread[t] = "clearing"
    /\ code' = "none"
    /\ event' = FALSE
    /\ Becomes(t, "waiting")
    /\ Emit("twoFactorNeeded", t)
    /\ UNCHANGED <<dialog, fields, signsIn, stored, folderFull>>

WakeUp(t) ==
    /\ thread[t] = "waiting"
    /\ event
    /\ Becomes(t, "woken")
    /\ UNCHANGED <<dialog, fields, signsIn, prompt, signals, stored, folderFull>>

\* 300 seconds without an answer are a cancelled sign-in.
CodeTimeout(t) ==
    /\ thread[t] = "waiting"
    /\ ~event
    /\ Becomes(t, "done")
    /\ Emit("failed", t)
    /\ UNCHANGED <<dialog, fields, signsIn, prompt, stored, folderFull>>

ReadCode(t) ==
    /\ thread[t] = "woken"
    /\ \/ /\ code = "right"
          /\ accepted' = accepted \cup {signsIn[t]}
          /\ Emit("authenticated", t)
       \/ /\ Emit("failed", t)
          /\ UNCHANGED accepted
    /\ Becomes(t, "done")
    /\ UNCHANGED <<dialog, fields, signsIn, prompt, passwords, config, folderFull>>

FindVaults(t) ==
    /\ thread[t] = "listing"
    /\ Becomes(t, "done")
    /\ Emit("vaultsFound", t) \/ Emit("failed", t)
    /\ UNCHANGED <<dialog, fields, signsIn, prompt, stored, folderFull>>

Work == \E t \in Thread : \/ SigningIn(t) \/ ClearCode(t) \/ WakeUp(t)
                          \/ CodeTimeout(t) \/ ReadCode(t) \/ FindVaults(t)

-----------------------------------------------------------------------------
(* The signals' slots: they run on the GUI thread, in the order of emission,
   and also after the dialog was closed, while the program goes on. *)

Arrives(kind) == /\ signals # <<>>
               /\ Head(signals).kind = kind
               /\ shown # "rejected"
               /\ signals' = Tail(signals)

\* Mutant: the fields as they are now.
OnAuthenticatedFields ==
    /\ Arrives("authenticated")
    /\ api' = Head(signals).of
    /\ passwords' = passwords \cup ({typed} \ {None})
    /\ busy' = TRUE
    /\ Becomes(Head(signals).of, "listing")
    /\ UNCHANGED <<page, shown, typed, account, signsIn, prompt, accepted, config,
                   folderFull>>

OnAuthenticated ==
    /\ Arrives("authenticated")
    /\ api' = Head(signals).of
    /\ passwords' = passwords \cup {account}
    /\ busy' = TRUE
    /\ Becomes(Head(signals).of, "listing")
    /\ UNCHANGED <<page, shown, typed, account, signsIn, prompt, accepted, config,
                   folderFull>>

OnTwofaNeeded ==
    /\ Arrives("twoFactorNeeded")
    /\ busy' = FALSE
    /\ page' = "twofa"
    /\ UNCHANGED <<shown, fields, thread, signsIn, prompt, stored, folderFull>>

OnVaults ==
    /\ Arrives("vaultsFound")
    /\ busy' = FALSE
    /\ page' = "vault"
    /\ UNCHANGED <<shown, fields, thread, signsIn, prompt, stored, folderFull>>

\* Mutant: the message is shown, nothing else.
OnFailedBusy ==
    /\ Arrives("failed")
    /\ UNCHANGED <<dialog, fields, thread, signsIn, prompt, stored, folderFull>>

OnFailed ==
    /\ Arrives("failed")
    /\ busy' = FALSE
    /\ UNCHANGED <<page, shown, fields, thread, signsIn, prompt, stored, folderFull>>

Slots == OnAuthenticated \/ OnTwofaNeeded \/ OnVaults \/ OnFailed

-----------------------------------------------------------------------------
(* The user *)

\* The fields stay open to typing while a sign-in runs.
TypeAccount(a) ==
    /\ page = "credentials"
    /\ shown = "open"
    /\ typed' = a
    /\ UNCHANGED <<dialog, account, api, thread, signsIn, prompt, signals, stored,
                   folderFull>>

Continue(p) == page = p /\ shown = "open" /\ ~busy

\* Mutant: the button is not disabled.
SignInUnbusy(t) ==
    /\ Continue("credentials")
    /\ typed # None
    /\ thread[t] = "unused"
    /\ account' = typed
    /\ Becomes(t, "signing")
    /\ signsIn' = [signsIn EXCEPT ![t] = typed]
    /\ UNCHANGED <<busy, page, shown, typed, api, prompt, signals, stored, folderFull>>

SignIn(t) ==
    /\ Continue("credentials")
    /\ typed # None
    /\ thread[t] = "unused"
    /\ account' = typed
    /\ busy' = TRUE
    /\ Becomes(t, "signing")
    /\ signsIn' = [signsIn EXCEPT ![t] = typed]
    /\ UNCHANGED <<page, shown, typed, api, prompt, signals, stored, folderFull>>

\* The code is provided to whoever waits for one.
EnterCode(c) ==
    /\ Continue("twofa")
    /\ busy' = TRUE
    /\ code' = c
    /\ event' = TRUE
    /\ UNCHANGED <<page, shown, fields, thread, signsIn, signals, stored, folderFull>>

ChooseVault ==
    /\ Continue("vault")
    /\ page' = "folder"
    /\ UNCHANGED <<busy, shown, fields, thread, signsIn, prompt, signals, stored,
                   folderFull>>

\* Mutant: the account is read from the field again.
FinishTyped(mode) ==
    /\ config' = [from |-> "wizard", account |-> typed,
                  mode |-> IF folderFull THEN mode ELSE "adopt"]
    /\ shown' = "accepted"

\* _finish: the mode counts only if the folder has files.
Finish(mode) ==
    /\ config' = [from |-> "wizard", account |-> account,
                  mode |-> IF folderFull THEN mode ELSE "adopt"]
    /\ shown' = "accepted"

\* A folder with files asks how to start; files may come into it meanwhile.
ChooseFolder ==
    /\ Continue("folder")
    /\ IF folderFull
       THEN page' = "firstSync" /\ UNCHANGED <<shown, config>>
       ELSE Finish("adopt") /\ UNCHANGED page
    /\ UNCHANGED <<busy, fields, thread, signsIn, prompt, signals, accepted,
                   passwords, folderFull>>

ChooseFirstSync(mode) ==
    /\ Continue("firstSync")
    /\ Finish(mode)
    /\ UNCHANGED <<page, busy, fields, thread, signsIn, prompt, signals, accepted,
                   passwords, folderFull>>

\* Obsidian or the user changes what is in the folder.
FolderChanges ==
    /\ page = "firstSync"
    /\ shown = "open"
    /\ folderFull' = ~folderFull
    /\ UNCHANGED <<dialog, fields, thread, signsIn, prompt, signals, stored>>

Cancel ==
    /\ shown = "open"
    /\ shown' = "rejected"
    /\ UNCHANGED <<page, busy, fields, thread, signsIn, prompt, signals, stored,
                   folderFull>>

\* The configuration is copied first, the session and the database next, the
\* password, if there is one, last.  After a failure what was copied stays.
ImportFromIObsi(done) ==
    \/ ~done /\ UNCHANGED <<passwords, config>>
    \/ /\ config' = [from |-> "import", account |-> Legacy, mode |-> "adopt"]
       /\ passwords' \in {passwords} \cup (IF done THEN {passwords \cup {Legacy}} ELSE {})

\* _do_import; afterwards the button is enabled, whatever else goes on.
Import ==
    /\ page = "credentials"
    /\ shown = "open"
    /\ busy => ImportWhileBusy
    /\ busy' = FALSE
    /\ \E done \in BOOLEAN :
          ImportFromIObsi(done) /\ shown' = IF done THEN "accepted" ELSE "open"
    /\ UNCHANGED <<page, fields, thread, signsIn, prompt, signals, accepted,
                   folderFull>>

User == \/ ChooseVault \/ ChooseFolder \/ FolderChanges \/ Cancel \/ Import
        \/ \E a \in Account : TypeAccount(a)
        \/ \E t \in Thread : SignIn(t)
        \/ \E c \in {"right", "wrong"} : EnterCode(c)
        \/ \E mode \in Modes : ChooseFirstSync(mode)

Next == Work \/ Slots \/ User

Spec == Init /\ [][Next]_vars

\* Threads run, requests end, the GUI thread handles its events; the user need
\* do nothing.
FairSpec == Spec /\ WF_vars(Work) /\ WF_vars(Slots)

-----------------------------------------------------------------------------
(* Properties *)

Working == \E t \in Thread : thread[t] \notin Finished

\* "Only persist once Apple has actually accepted the credentials": whatever is
\* typed while a sign-in runs, and whichever attempt succeeds.
SavedWasAccepted == passwords \subseteq accepted \cup {Legacy}

\* A dialog finished page by page leaves the configuration of the account Apple
\* accepted, and the session the program goes on with is that account's.
ConfigIsSignedIn ==
    config.from = "wizard" /\ shown = "accepted"
        => /\ config.account \in accepted
           /\ api # None /\ signsIn[api] = config.account

\* The shared prompt serves one sign-in: no two threads ever wait for a code,
\* so none can take the code of the other.
OneSignIn ==
    \A t, u \in Thread : thread[t] \in Active /\ thread[u] \in Active => t = u

\* Nothing runs for the dialog.
Quiet == \A t \in Thread : thread[t] \in Finished

\* The next three say where a sign-in can be.  One thread works at a time, and
\* what it has told the dialog comes before the next one starts.
OneAtATime ==
    /\ \A t, u \in Thread : thread[t] \notin Finished /\ thread[u] \notin Finished => t = u
    /\ page = "credentials" /\ ~busy => Quiet /\ Len(signals) = 0
    /\ page \in {"vault", "folder", "firstSync"} => Quiet /\ Len(signals) = 0
    /\ page # "credentials" => \A t \in Thread : thread[t] \notin {"signing", "clearing"}
    /\ event => page # "credentials"

\* A signal waits alone, unless the request for a code is still queued when the
\* wait for it ends.
SignalsInOrder ==
    /\ Len(signals) \in 0..2
    /\ Len(signals) = 2 => /\ Quiet
                           /\ page = "credentials"
                           /\ signals[1].kind = "twoFactorNeeded"
                           /\ signals[2].kind = "failed"
    /\ Len(signals) = 1 =>
          IF Quiet THEN signals[1].kind # "twoFactorNeeded"
                   ELSE /\ signals[1].kind = "twoFactorNeeded"
                        /\ page = "credentials"
                        /\ \E t \in Thread : thread[t] = "waiting"

\* _email and the service belong together.
OneAccount ==
    /\ \A t \in Thread : thread[t] \notin Finished => signsIn[t] = account /\ account # None
    /\ \A t \in Thread : thread[t] = "listing" => api = t /\ account \in accepted
    /\ \A i \in 1..Len(signals) :
          /\ signsIn[signals[i].of] = account
          /\ signals[i].kind = "authenticated" => account \in accepted
          /\ signals[i].kind = "vaultsFound" => api = signals[i].of /\ account \in accepted
    /\ page \in {"vault", "folder", "firstSync"} =>
          account \in accepted /\ api # None /\ signsIn[api] = account
    /\ config.from = "wizard" =>
          page \in {"folder", "firstSync"} /\ config.account = account

\* The invariant of the proofs: what the three ways in which the threads meet
\* agree on at every step.
DialogInStep ==
    TypeOK /\ SavedWasAccepted /\ OneAtATime /\ SignalsInOrder /\ OneAccount

\* As long as a thread works for the dialog, the dialog comes back: it asks, it
\* goes on, or it says what failed.
WaitEnds == (busy /\ Working) ~> (~busy \/ shown = "rejected")

\* "Apple rejected the code. Check it and try again.": whatever is answered,
\* the dialog can be used again.
DialogComesBack == busy ~> (~busy \/ shown # "open")

\* The session the program goes on with is that of its configuration.
AdoptedIsConfigured ==
    shown = "accepted" /\ api # None => signsIn[api] = config.account
=============================================================================
