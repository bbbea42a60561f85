----------------------------- MODULE DisplayModes -----------------------------
(***************************************************************************)
(* The preview of a display mode (drm.rs): a mode that is tried is kept    *)
(* when it is confirmed, which saves the configuration, and reverted when  *)
(* its time is over. The loop sleeps until something happens; the timer of *)
(* the preview wakes it, and so does every second the timer that           *)
(* supervises the children (backend/mod.rs). Each iteration looks at the   *)
(* deadline first and then at the requests that came in.                   *)
(***************************************************************************)
EXTENDS ConfigTransaction

CONSTANTS
    Best,           \* the mode a start chooses by itself
    MaxTimers,      \* bound on timers armed at once
    SwitchFails     \* whether a mode switch may fail

ASSUME DisplayAssumption == Best \in Modes /\ MaxTimers \in Nat /\ SwitchFails \in BOOLEAN

VARIABLES
    mode,           \* of the output
    preview,        \* what it will go back to
    expired,        \* the deadline of the preview has passed
    timers,         \* armed timers of previews, the present one or earlier ones
    active,         \* the session is on its VT
    woken           \* something happened since the loop last went to sleep

display == <<mode, preview, expired, timers>>
configuration == <<settings, files, fragment, debounce, refused, plugged, devices>>
vars == <<configuration, display, active, woken>>

NoPreview == Automatic
Pending == preview # NoPreview

\* revert_mode; the switch may fail and leaves the preview as it is.
Revert ==
    \/ /\ Pending
       /\ mode' = preview /\ preview' = NoPreview /\ expired' = FALSE
       /\ UNCHANGED timers
    \/ (Pending => SwitchFails) /\ UNCHANGED display

\* Mutant of Preview: a preview may follow another.
PreviewAgain(m) ==
    \/ /\ m # mode /\ timers < MaxTimers
       /\ timers' = timers + 1
       /\ \/ mode' = m /\ preview' = mode /\ expired' = FALSE
          \/ SwitchFails /\ UNCHANGED <<mode, preview, expired>>
    \/ m = mode /\ UNCHANGED display

\* preview_mode: the timer is armed, the mode switched, the deadline taken.
Preview(m) ==
    \/ /\ ~Pending /\ m # mode /\ timers < MaxTimers
       /\ timers' = timers + 1
       /\ \/ mode' = m /\ preview' = mode /\ expired' = FALSE
          \/ SwitchFails /\ UNCHANGED <<mode, preview, expired>>
    \/ (Pending \/ m = mode) /\ UNCHANGED display

\* confirm_mode: the configuration in force is saved with the mode.
Confirm ==
    \/ /\ Pending
       /\ config' = [config EXCEPT !.mode = mode]
       /\ Saved(config')
       /\ preview' = NoPreview /\ expired' = FALSE
       /\ UNCHANGED <<mode, timers, keymap>>
    \/ /\ IF Pending THEN SaveFails ELSE UNCHANGED files
       /\ UNCHANGED <<display, config, keymap>>

\* The requests of integrations, refused while the session is away.
Request ==
    \/ active /\ (Revert \/ \E m \in Modes : Preview(m)) /\ UNCHANGED <<config, keymap, files>>
    \/ active /\ Confirm
    \/ ~active /\ UNCHANGED <<display, config, keymap, files>>

Overdue == active /\ Pending /\ expired

\* One iteration of the loop, up to its end: an overdue preview is reverted, and
\* if that fails the requests still see it; then the devices are configured again.
Iterate ==
    /\ woken
    /\ \/ Overdue /\ Revert /\ UNCHANGED <<config, keymap, files>>
       \/ (Overdue => SwitchFails) /\ Request
       \/ ~Overdue /\ UNCHANGED <<display, config, keymap, files>>
    /\ IF inputChanged THEN Reapply ELSE UNCHANGED devices
    /\ inputChanged' = FALSE
    /\ refused' = (refused /\ ~unread')
    /\ woken' = FALSE
    /\ UNCHANGED <<fragment, debounce, plugged, active>>

DisplayTimer ==
    /\ timers > 0
    /\ timers' = timers - 1
    /\ woken' = TRUE
    /\ UNCHANGED <<configuration, mode, preview, expired, active>>

\* Time passes: the deadline of the preview.
Elapse ==
    /\ Pending /\ ~expired
    /\ expired' = TRUE
    /\ UNCHANGED <<configuration, mode, preview, timers, active, woken>>

Pause ==
    /\ active
    /\ active' = FALSE
    /\ woken' = TRUE
    /\ UNCHANGED <<configuration, display>>

Resume ==
    /\ ~active
    /\ active' = TRUE
    /\ Reapply
    /\ woken' = TRUE
    /\ UNCHANGED <<settings, files, fragment, debounce, refused, plugged, display>>

\* Mutant of Supervise: the timer is dropped when it has fired, and nothing else
\* happens while a mode is tried.
SupervisedOnce ==
    /\ ~woken /\ ~Pending
    /\ woken' = TRUE
    /\ UNCHANGED <<configuration, display, active>>

\* The supervision timer, which is armed again for a second later: what input, a client,
\* a frame that was presented or a request of an integration does earlier.
Supervise ==
    /\ ~woken
    /\ woken' = TRUE
    /\ UNCHANGED <<configuration, display, active>>

\* What the loop is told about the configuration and the devices.
Callback ==
    /\ \/ \E asked \in Asked : Update(asked)
       \/ WatchEvent
       \/ Reload
       \/ \E d \in Devices : DeviceAdded(d) \/ DeviceRemoved(d)
    /\ woken' = TRUE
    /\ UNCHANGED <<display, active>>

User ==
    /\ \/ \E contents \in Edits \cup {Broken} : EditFile(contents)
       \/ \E contents \in Fragments : EditFragment(contents)
    /\ UNCHANGED <<display, active, woken>>

\* The mode a start chooses.
StartMode(m) == IF m = Automatic THEN Best ELSE m

Init ==
    /\ ConfigInit
    /\ mode = StartMode(config.mode) /\ preview = NoPreview /\ expired = FALSE /\ timers = 0
    /\ active = TRUE /\ woken = FALSE

Next == Iterate \/ DisplayTimer \/ Elapse \/ Pause \/ Resume \/ Supervise \/ Callback \/ User

Spec == Init /\ [][Next]_vars

\* The loop runs once it is woken, time passes, timers fire, the supervision timer again
\* and again; the user comes back. A switch back that an overdue preview asks for again
\* and again succeeds at last.
FairSpec ==
    /\ Spec
    /\ WF_vars(Iterate) /\ WF_vars(Elapse) /\ WF_vars(DisplayTimer) /\ WF_vars(Supervise)
    /\ WF_vars(Resume)
    /\ SF_vars(Iterate /\ Overdue /\ mode' = preview)

-----------------------------------------------------------------------------
TypeOK ==
    /\ ConfigTypeOK
    /\ mode \in Modes /\ preview \in Modes \cup {NoPreview}
    /\ timers \in 0..MaxTimers
    /\ {expired, active, woken} \subseteq BOOLEAN

\* Without a preview the screen shows the mode of the configuration in force: none stays
\* that nobody confirmed, whatever is edited, reloaded or saved meanwhile. It is also what
\* the next start will choose, as long as the user has not rewritten the file since the
\* compositor saved it and no fragment, which a start reads after the file, names a mode
\* (drm.rs:141-245, state.rs:762-765, config.rs:1270-1275).
Settled ==
    ~Pending =>
        /\ mode = StartMode(config.mode)
        /\ ~edited /\ "mode" \notin DOMAIN fragment => mode = StartMode(Loaded.mode)

\* A preview ends: although its timer, armed before the mode is switched, may fire before
\* the deadline, which is taken after it, although the session may be away when it fires,
\* and although switching back may fail (drm.rs:151-164, 198-221, backend/mod.rs:252-263).
PreviewEnds == Pending ~> ~Pending
=============================================================================
