------------------------------ MODULE SettingsForm ------------------------------
(***************************************************************************)
(* The draft of the settings page (pages/SettingsPage.tsx): the accounts    *)
(* with their groups, the fixed groups and the peak windows as its fields   *)
(* change them, and how the draft is saved and discarded.                   *)
(*                                                                          *)
(* The fields are what keeps a group from being claimed twice while it is   *)
(* edited: an option is disabled in one select while another holds it.      *)
(* What the server accepts is Config's; only the rules that concern several *)
(* fields are repeated here, as Accepts.                                    *)
(***************************************************************************)
EXTENDS Integers, Sequences, SequencesExt, FiniteSets

CONSTANTS
    Groups, Emails,
    Active,         \* the emails whose accounts are active upstream
    Opened,         \* the configuration the page was opened with
    None,
    MaxAccounts, MaxEdits   \* bounds

NoEmail == ""
Keys == {"account-1", "account-2", "account-3"}
NewKey(n) == CASE n = 1 -> "account-1" [] n = 2 -> "account-2" [] OTHER -> "account-3"
\* Values of a reserve: one that is a percentage, one that is not.
Values == {100, 500}
Windows == {"noon", "evening"}

Accounts == [key : Keys, email : Emails \cup {NoEmail}, groups : SUBSET Groups,
             percent : BOOLEAN, value : Values]
Drafts == [accounts : Seq(Accounts), fixed : SUBSET Groups, windows : Seq(Windows)]

VARIABLES
    draft, savedConfig,
    sending,        \* the draft that is being saved, or None
    failed,         \* is the failure of the last save shown
    options,        \* have the accounts and groups been read from Sub2API
    edits

vars == <<draft, savedConfig, sending, failed, options, edits>>

TypeOK ==
    /\ draft \in Drafts /\ savedConfig \in Drafts
    /\ Len(draft.accounts) <= MaxAccounts
    /\ sending = None \/ sending \in Drafts
    /\ failed \in BOOLEAN /\ (failed => sending = None)
    /\ options \in BOOLEAN /\ edits \in 0..MaxEdits

Init ==
    /\ draft = Opened /\ savedConfig = Opened
    /\ sending = None /\ failed = FALSE
    /\ options = FALSE /\ edits = 0

dirty == draft # savedConfig

-----------------------------------------------------------------------------
(* The fields.  While the draft is saved the fieldset is disabled; the chips *)
(* of the multiple selects are no form controls and can still be removed.   *)

Edit(new) ==
    /\ edits < MaxEdits /\ edits' = edits + 1
    /\ new # draft /\ draft' = new
    /\ UNCHANGED <<savedConfig, sending, failed, options>>

EditField(new) == sending = None /\ Edit(new)

\* changeAccount, with the fields of the account already changed.
ChangeAccount(i, changed) == [draft EXCEPT !.accounts[i] = changed]

AddAccount ==
    LET a == draft.accounts IN
    /\ Len(a) < MaxAccounts
    /\ EditField([draft EXCEPT !.accounts = Append(a,
          [key |-> NewKey(Len(a) + 1), email |-> NoEmail, groups |-> {},
           percent |-> FALSE, value |-> 100])])

DeleteAccount == \E i \in DOMAIN draft.accounts :
    /\ Len(draft.accounts) > 1
    /\ EditField([draft EXCEPT !.accounts = RemoveAt(@, i)])

SetKey == \E i \in DOMAIN draft.accounts, k \in Keys :
    EditField(ChangeAccount(i, [draft.accounts[i] EXCEPT !.key = k]))

\* Another account's email is disabled, and so is an inactive one.
EmailEnabled(i, e) ==
    /\ e \in Active \/ e = draft.accounts[i].email
    /\ \A j \in DOMAIN draft.accounts : j # i => draft.accounts[j].email # e
SetEmail == \E i \in DOMAIN draft.accounts, e \in Emails :
    /\ options /\ EmailEnabled(i, e)
    /\ EditField(ChangeAccount(i, [draft.accounts[i] EXCEPT !.email = e]))

SetReserve == \E i \in DOMAIN draft.accounts, v \in Values :
    EditField(ChangeAccount(i, [draft.accounts[i] EXCEPT !.value = v]))
SetReserveMode == \E i \in DOMAIN draft.accounts :
    LET a == draft.accounts[i] IN
    EditField(ChangeAccount(i,
        [a EXCEPT !.percent = ~a.percent,
                  !.value = IF ~a.percent /\ a.value > 100 THEN 100 ELSE a.value]))

GroupEnabled(i, g) ==
    /\ g \notin draft.fixed
    /\ \A j \in DOMAIN draft.accounts : j # i => g \notin draft.accounts[j].groups
AddGroup == \E i \in DOMAIN draft.accounts, g \in Groups :
    /\ options /\ GroupEnabled(i, g)
    /\ EditField(ChangeAccount(i, [draft.accounts[i] EXCEPT !.groups = @ \cup {g}]))
RemoveGroup == \E i \in DOMAIN draft.accounts, g \in Groups :
    Edit(ChangeAccount(i, [draft.accounts[i] EXCEPT !.groups = @ \ {g}]))

assignedGroupIds == UNION {draft.accounts[i].groups : i \in DOMAIN draft.accounts}
AddFixed == \E g \in Groups \ assignedGroupIds :
    options /\ EditField([draft EXCEPT !.fixed = @ \cup {g}])
RemoveFixed == \E g \in draft.fixed : Edit([draft EXCEPT !.fixed = @ \ {g}])

AddPeakWindow ==
    /\ Len(draft.windows) < 4
    /\ EditField([draft EXCEPT !.windows = Append(@, "evening")])
ChangePeakWindow == \E i \in DOMAIN draft.windows, w \in Windows :
    EditField([draft EXCEPT !.windows[i] = w])
RemovePeakWindow == \E i \in DOMAIN draft.windows :
    /\ Len(draft.windows) # 1
    /\ EditField([draft EXCEPT !.windows = RemoveAt(@, i)])

\* settingsOptions; a failure leaves the selects without options.
ReadOptions == ~options /\ options' = TRUE
               /\ UNCHANGED <<draft, savedConfig, sending, failed, edits>>

-----------------------------------------------------------------------------
(* Saving                                                                   *)

\* checkValidity of every input, in the hidden panels too.
Valid(d) == \A i \in DOMAIN d.accounts : d.accounts[i].percent => d.accounts[i].value <= 100

Submit ==
    /\ dirty /\ sending = None /\ Valid(draft)
    /\ sending' = draft /\ failed' = FALSE
    /\ UNCHANGED <<draft, savedConfig, options, edits>>

\* What parseServiceConfig asks of several fields together.
Accepts(d) ==
    LET a == d.accounts IN
    /\ \A i \in DOMAIN a : a[i].email # NoEmail /\ a[i].groups # {}
    /\ \A i, j \in DOMAIN a : i # j => /\ a[i].key # a[j].key /\ a[i].email # a[j].email
                                       /\ a[i].groups \cap a[j].groups = {}
    /\ \A i \in DOMAIN a : a[i].groups \cap d.fixed = {}
    /\ \A i, j \in DOMAIN d.windows : i # j => d.windows[i] # d.windows[j]

\* The form shows what the server answers, whatever became of the draft.
SaveSucceeds ==
    /\ sending # None /\ Accepts(sending)
    /\ draft' = sending /\ savedConfig' = sending
    /\ sending' = None /\ UNCHANGED <<failed, options, edits>>

\* Refused, or not answered, or answered by a failure after all checks.
SaveFails ==
    /\ sending # None
    /\ sending' = None /\ failed' = TRUE
    /\ UNCHANGED <<draft, savedConfig, options, edits>>

Discard ==
    /\ dirty /\ sending = None
    /\ draft' = savedConfig /\ failed' = FALSE
    /\ UNCHANGED <<savedConfig, sending, options, edits>>

Next ==
    \/ AddAccount \/ DeleteAccount \/ SetKey \/ SetEmail \/ SetReserve \/ SetReserveMode
    \/ AddGroup \/ RemoveGroup \/ AddFixed \/ RemoveFixed
    \/ AddPeakWindow \/ ChangePeakWindow \/ RemovePeakWindow
    \/ ReadOptions \/ Submit \/ SaveSucceeds \/ SaveFails \/ Discard

Spec == Init /\ [][Next]_vars

-----------------------------------------------------------------------------
(* Properties                                                               *)

\* However the fields of accounts and of fixed groups are used, no group is in
\* two of them: the selects keep a draft within the server's rule of one owner.
GroupsApart ==
    /\ \A i, j \in DOMAIN draft.accounts : i # j =>
          draft.accounts[i].groups \cap draft.accounts[j].groups = {}
    /\ \A i \in DOMAIN draft.accounts : draft.accounts[i].groups \cap draft.fixed = {}

\* No two accounts of a draft are the same account upstream.
EmailsApart == \A i, j \in DOMAIN draft.accounts :
    i # j /\ draft.accounts[i].email # NoEmail => draft.accounts[i].email # draft.accounts[j].email

\* A draft never leaves the shape in which it can be edited: there is an account
\* and a window to change, and no more windows than the server takes.
Editable == draft.accounts # <<>> /\ Len(draft.windows) \in 1..4

\* What the page takes for saved is what the server accepted, although chips
\* were removed while it was being saved.
SavedWasAccepted == savedConfig = Opened \/ Accepts(savedConfig)

-----------------------------------------------------------------------------
\* What the proofs assume: the page was opened with a configuration that the
\* process runs with, so one that was accepted.
FormParameters ==
    /\ Opened \in Drafts /\ Accepts(Opened) /\ None \notin Drafts
    /\ Len(Opened.accounts) \in 1..MaxAccounts /\ Len(Opened.windows) \in 1..4
    /\ NoEmail \notin Emails /\ MaxAccounts \in Nat /\ MaxEdits \in Nat
=============================================================================
