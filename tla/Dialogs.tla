-------------------------------- MODULE Dialogs --------------------------------
(***************************************************************************)
(* Editing a client's own settings (bt_main.cpp): cc_config.xml, the proxy *)
(* and the preferences.  A fetch runs on the poller's thread, its callback *)
(* opens a modal dialog, and OK posts the write to the same poller, through*)
(* a pointer kept all the while.  The pollers of the computer are those of *)
(* CommandChannel.  The RPCs of one command are steps of their own.        *)
(***************************************************************************)
EXTENDS CommandChannel, FiniteSets

CONSTANTS
    MaxEdits,   \* bound: uses of the three menu entries
    Kinds,      \* the entries used: "config", "proxy", "prefs"
    Fields,     \* the preferences an override may pin
    Pinned      \* those it pins at first

ASSUME DialogsAssumption ==
    /\ MaxEdits \in Nat
    /\ Kinds \subseteq {"config", "proxy", "prefs"} /\ Kinds # {}
    /\ Pinned \subseteq Fields
    /\ IsFiniteSet(Fields) /\ Fields \cap {"config", "apps", "proxy"} = {}

Edits    == 1..MaxEdits
Dropped  == -1      \* what CC_CONFIG does not hold, once that was written
Empty    == -1      \* a CC_CONFIG nothing was read into

VARIABLES
    running,    \* the program has not crashed
    client,     \* its settings: which edit wrote cc_config and the proxy, 0 for
                \* none, and which preferences are overridden, whatever to
    what,       \* what each command of the channel does: <<"fetch", e>> ...
    posted,     \* CallAfter callbacks: <<"show", e>>, <<"failed", e>>,
                \* <<"result", e>>, and <<"silent", e>> for a text that does
                \* not mention the applications
    open,       \* modal dialogs, each on top of those before it
    stage,      \* how far each edit is
    kind,       \* the entry each edit is a use of
    pointer,    \* the BtPoller* its closures carry
    read,       \* whether the preferences were read for it
    mask,       \* the overrides there were, none when they could not be read
    changed,    \* what the user changed
    at,         \* how far in a command a poller's thread is
    config      \* what its CC_CONFIG and LOG_FLAGS hold in the midst of one

editVars   == <<stage, kind, pointer, read, mask, changed>>
threadVars == <<at, config>>
vars == <<channelVars, running, client, what, posted, open, stage, kind,
          pointer, read, mask, changed, at, config>>

----------------------------------------------------------------------------
(* The frame.  A modal dialog disables the main window: no other menu entry*)
(* and no change to the list of computers, but callbacks go on.            *)

AtMainWindow == running /\ open = <<>>

\* The menu entries: nothing if the computer has no poller.
OnEdit(e, k) ==
    /\ AtMainWindow
    /\ stage[e] = "unused"
    /\ \A d \in Edits : d < e => stage[d] # "unused"
    /\ current # NoPoller
    /\ Send(current)
    /\ what' = Append(what, <<"fetch", e>>)
    /\ stage' = [stage EXCEPT ![e] = "fetching"]
    /\ kind' = [kind EXCEPT ![e] = k]
    /\ pointer' = [pointer EXCEPT ![e] = current]
    /\ UNCHANGED <<running, client, posted, open, read, mask, changed,
                   threadVars>>

\* Any handler that changes the list of computers.
RestartPollers(polled) ==
    /\ AtMainWindow
    /\ Restart(polled)
    /\ UNCHANGED <<running, client, what, posted, open, editVars, threadVars>>

\* The fetch's callback opens the dialog.
Show ==
    /\ running /\ posted # <<>> /\ Head(posted)[1] = "show"
    /\ open' = Append(open, Head(posted)[2])
    /\ stage' = [stage EXCEPT ![Head(posted)[2]] = "open"]
    /\ posted' = Tail(posted)
    /\ UNCHANGED <<channelVars, running, client, what, kind, pointer, read,
                   mask, changed, threadVars>>

\* What the closures and the dialog of an edit held is gone with them; of one
\* that ends untold it is kept in mind what it was about.
Close(e, how) ==
    /\ stage' = [stage EXCEPT ![e] = how]
    /\ pointer' = [pointer EXCEPT ![e] = NoPoller]
    /\ read' = [read EXCEPT ![e] = FALSE]
    /\ mask' = [mask EXCEPT ![e] = {}]
    /\ changed' = [changed EXCEPT ![e] = IF how = "untold" THEN @ ELSE {}]

\* That the fetch failed, or what became of the write.
Tell ==
    /\ running /\ posted # <<>> /\ Head(posted)[1] # "show"
    /\ Close(Head(posted)[2], IF Head(posted)[1] = "silent" THEN "untold" ELSE "closed")
    /\ posted' = Tail(posted)
    /\ UNCHANGED <<channelVars, running, client, what, open, kind, threadVars>>

\* What the fields of the dialog on top let the user change.  The proxy
\* dialog does not look whether anything changed.
Changes(k) ==
    CASE k = "config" -> {{"config"}}
      [] k = "proxy"  -> {{"proxy"}}
      [] k = "prefs"  -> SUBSET (Fields \cup {"apps"}) \ {{}}

\* OK: Post through the pointer.  If that poller's thread is over the object
\* may be destroyed already; then the command is lost or the program is.
Accept(e, parts) ==
    /\ running
    /\ open # <<>> /\ open[Len(open)] = e
    /\ open' = SubSeq(open, 1, Len(open) - 1)
    /\ stage' = [stage EXCEPT ![e] = "submitted"]
    /\ changed' = [changed EXCEPT ![e] = parts]
    /\ \/ /\ Send(pointer[e])
          /\ what' = Append(what, <<"write", e>>)
          /\ UNCHANGED running
       \/ /\ pointer[e] \in ended
          /\ running' = FALSE
          /\ UNCHANGED <<channelVars, what>>
    /\ UNCHANGED <<client, posted, kind, pointer, read, mask, threadVars>>

\* Cancel, or OK with nothing changed where the dialog looks.
Dismiss(e) ==
    /\ running
    /\ open # <<>> /\ open[Len(open)] = e
    /\ open' = SubSeq(open, 1, Len(open) - 1)
    /\ Close(e, "closed")
    /\ UNCHANGED <<channelVars, running, client, what, posted, kind, threadVars>>

----------------------------------------------------------------------------
(* The poller's thread.                                                    *)

NextCommand(p, op, e, place) ==
    /\ running /\ p \notin ended
    /\ queue[p] # <<>> /\ what[Head(queue[p])] = <<op, e>>
    /\ at[p] = place

\* cc_config and the proxy are read by one RPC.
Fetch(p, e) ==
    /\ NextCommand(p, "fetch", e, "begin") /\ kind[e] # "prefs"
    /\ Execute(p, FALSE)
    /\ \E rc \in BOOLEAN :
          posted' = Append(posted, <<IF rc THEN "show" ELSE "failed", e>>)
    /\ UNCHANGED <<running, client, what, open, editVars, threadVars>>

\* The preferences by three: first the values in force, overridden or not.
ReadPrefs(p, e) ==
    /\ NextCommand(p, "fetch", e, "begin") /\ kind[e] = "prefs"
    /\ \E rc \in BOOLEAN : read' = [read EXCEPT ![e] = rc]
    /\ at' = [at EXCEPT ![p] = "mask"]
    /\ UNCHANGED <<channelVars, running, client, what, posted, open, stage, kind,
                   pointer, mask, changed, config>>

\* Then which of them are overridden, of no use if there will be no dialog; that
\* this one fails goes unnoticed.
ReadMask(p, e) ==
    /\ NextCommand(p, "fetch", e, "mask")
    /\ \E rc \in BOOLEAN :
          mask' = [mask EXCEPT ![e] = IF rc /\ read[e]
                                          THEN client.override ELSE {}]
    /\ at' = [at EXCEPT ![p] = "apps"]
    /\ UNCHANGED <<channelVars, running, client, what, posted, open, stage, kind,
                   pointer, read, changed, config>>

\* Then the exclusive applications, read or not, to be shown.
ReadApps(p, e) ==
    /\ NextCommand(p, "fetch", e, "apps")
    /\ Execute(p, FALSE)
    /\ posted' = Append(posted, <<IF read[e] THEN "show" ELSE "failed", e>>)
    /\ at' = [at EXCEPT ![p] = "begin"]
    /\ UNCHANGED <<running, client, what, open, editVars, config>>

\* Mutant: the mask holds what the user changed and nothing else.
MaskAfreshOf(e) == changed[e] \cap Fields

\* The mask of a write: what was overridden, and what the user changed.
MaskOf(e) == (changed[e] \cap Fields) \cup mask[e]


\* Done or failed, the frame is told.
Reported(e, written) == posted' = Append(posted, <<"result", e>>)

\* The editor's whole text goes back.
WriteConfig(p, e) ==
    /\ NextCommand(p, "write", e, "begin") /\ kind[e] = "config"
    /\ \E written \in BOOLEAN :
          /\ Execute(p, written)
          /\ client' = IF written
                       THEN [client EXCEPT !.held = e, !.other = e] ELSE client
          /\ Reported(e, written)
    /\ UNCHANGED <<running, what, open, editVars, threadVars>>

WriteProxy(p, e) ==
    /\ NextCommand(p, "write", e, "begin") /\ kind[e] = "proxy"
    /\ \E written \in BOOLEAN :
          /\ Execute(p, written)
          /\ client' = IF written THEN [client EXCEPT !.proxy = e] ELSE client
          /\ Reported(e, written)
    /\ UNCHANGED <<running, what, open, editVars, threadVars>>

\* The overrides, if a preference changed: set_global_prefs_override_struct
\* writes the whole file from the mask.
WritePrefs(p, e) ==
    /\ NextCommand(p, "write", e, "begin") /\ kind[e] = "prefs"
    /\ \E written \in BOOLEAN :
          /\ client' = IF changed[e] \cap Fields # {} /\ written
                       THEN [client EXCEPT !.override = MaskOf(e)]
                       ELSE client
          /\ IF "apps" \in changed[e]
             THEN at' = [at EXCEPT ![p] = "config"] /\ UNCHANGED <<channelVars, posted>>
             ELSE Execute(p, written) /\ Reported(e, written) /\ UNCHANGED at
    /\ UNCHANGED <<running, what, open, editVars, config>>

\* Mutant: nobody looks whether the file could be read.
GoesOnAnyway(got) == TRUE

\* Only a file that was read goes back.
GoesOn(got) == got

\* If the exclusive applications changed, cc_config is read.  When it cannot be
\* the text posted does not mention them, and is empty when they were all.
ReadConfig(p, e) ==
    /\ NextCommand(p, "write", e, "config")
    /\ \E got \in BOOLEAN :
          \/ /\ GoesOn(got)
             /\ config' = [config EXCEPT ![p] = IF got THEN client.held ELSE Empty]
             /\ at' = [at EXCEPT ![p] = "set"]
             /\ UNCHANGED <<channelVars, posted>>
          \/ /\ ~GoesOn(got)
             /\ Execute(p, FALSE)
             /\ posted' = Append(posted, <<"silent", e>>)
             /\ at' = [at EXCEPT ![p] = "begin"]
             /\ UNCHANGED config
    /\ UNCHANGED <<running, client, what, open, editVars>>

\* Mutant: a CC_CONFIG of defaults goes back instead of the one just read.
HeldAfresh(p) == 0

\* What CC_CONFIG and LOG_FLAGS hold of the file goes back as it was just read.
HeldAsRead(p) == config[p]

\* cc_config goes back with another list of exclusive applications, and without
\* what the two structs do not hold: comments, elements they do not know.
WriteApps(p, e) ==
    /\ NextCommand(p, "write", e, "set")
    /\ \E written \in BOOLEAN :
          /\ Execute(p, written)
          /\ client' = IF written
                       THEN [client EXCEPT !.held = HeldAsRead(p), !.other = Dropped]
                       ELSE client
          /\ Reported(e, written)
    /\ at' = [at EXCEPT ![p] = "begin"]
    /\ config' = [config EXCEPT ![p] = 0]
    /\ UNCHANGED <<running, what, open, editVars>>

\* Run returns, and drops what it has not come to.
EndPoller(p) ==
    /\ running
    /\ at[p] = "begin"
    /\ End(p)
    /\ UNCHANGED <<running, client, what, posted, open, editVars, threadVars>>
----------------------------------------------------------------------------

DialogsInit ==
    /\ Init
    /\ running = TRUE
    /\ client = [held |-> 0, other |-> 0, proxy |-> 0,
                 override |-> Pinned]
    /\ what = <<>>
    /\ posted = <<>>
    /\ open = <<>>
    /\ stage = [e \in Edits |-> "unused"]
    /\ kind = [e \in Edits |-> CHOOSE k \in Kinds : TRUE]
    /\ pointer = [e \in Edits |-> NoPoller]
    /\ read = [e \in Edits |-> FALSE]
    /\ mask = [e \in Edits |-> {}]
    /\ changed = [e \in Edits |-> {}]
    /\ at = [p \in Pollers |-> "begin"]
    /\ config = [p \in Pollers |-> 0]

User ==
    \/ \E e \in Edits : (\E k \in Kinds : OnEdit(e, k)) \/ Dismiss(e)
    \/ \E e \in Edits : \E parts \in Changes(kind[e]) : Accept(e, parts)
    \/ \E polled \in BOOLEAN : RestartPollers(polled)

Thread(p) ==
    \/ \E e \in Edits :
          \/ Fetch(p, e) \/ ReadPrefs(p, e) \/ ReadMask(p, e) \/ ReadApps(p, e)
          \/ WriteConfig(p, e) \/ WriteProxy(p, e)
          \/ WritePrefs(p, e) \/ ReadConfig(p, e) \/ WriteApps(p, e)
    \/ EndPoller(p)

DialogsNext == User \/ Show \/ Tell \/ \E p \in Pollers : Thread(p)

DialogsSpec == DialogsInit /\ [][DialogsNext]_vars

\* The event loop turns, and so do the threads: their RPCs have time-outs.
\* Nothing obliges the user to close a dialog.
DialogsFairSpec ==
    /\ DialogsSpec
    /\ WF_vars(Show) /\ WF_vars(Tell)
    /\ \A p \in Pollers : WF_vars(Thread(p))

----------------------------------------------------------------------------
(* Properties.                                                             *)

Settings == [held : 0..MaxEdits, other : {Dropped} \cup 0..MaxEdits,
             proxy : 0..MaxEdits, override : SUBSET Fields]

Stages == {"unused", "fetching", "open", "submitted", "closed", "untold"}

DialogsTypeOK ==
    /\ running \in BOOLEAN
    /\ client \in Settings
    /\ what \in Seq({"fetch", "write"} \X Edits) /\ Len(what) = sent
    /\ posted \in Seq({"show", "failed", "result", "silent"} \X Edits)
    /\ open \in Seq(Edits)
    /\ stage \in [Edits -> Stages]
    /\ kind \in [Edits -> Kinds]
    /\ pointer \in [Edits -> Pollers \cup {NoPoller}]
    /\ read \in [Edits -> BOOLEAN]
    /\ mask \in [Edits -> SUBSET Fields]
    /\ changed \in [Edits -> SUBSET (Fields \cup {"config", "apps", "proxy"})]
    /\ at \in [Pollers -> {"begin", "mask", "apps", "config", "set"}]
    /\ config \in [Pollers -> 0..MaxEdits]


\* A preference overridden on the client stays overridden through a write that
\* did not touch it, if the dialog could read the mask and found it there.
OverridesKept ==
    [][\A f \in client.override \ client'.override :
              \E e \in Edits : stage[e] = "submitted" /\ f \notin mask[e]]_vars

\* Of what CC_CONFIG and LOG_FLAGS hold of cc_config, the write of the exclusive
\* applications leaves alone what another dialog has changed since, if all was
\* posted to one poller.  A retired one reading and writing beside its successor
\* may undo what that one wrote; and what the structs do not hold is dropped by
\* every such write.
AppsWriteKeepsRest ==
    [][client'.held # client.held =>
          stop # {} \/ \E e \in Edits : stage[e] = "submitted"
                                       /\ kind[e] = "config"]_vars
=============================================================================
