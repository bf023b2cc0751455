------------------------------ MODULE Bootstrap ------------------------------
(***************************************************************************)
(* src/main/bootstrap: one Bootstrap at a time, always on BOOTSTRAP_TOKEN, *)
(* with timer 0 for the whole attempt and timer 1 for service discovery,   *)
(* and a TryPeer child for every contact.  Which contacts there are, and   *)
(* who answers, is input.                                                  *)
(***************************************************************************)
EXTENDS Listener

BootstrapState(sd_meta) == [NoState EXCEPT !.kind = "Bootstrap", !.sd_meta = sd_meta]

TryPeerState ==
    [NoState EXCEPT !.kind = "TryPeer", !.parent = BOOTSTRAP_TOKEN, !.interest = "writable"]

-----------------------------------------------------------------------------

BootstrapTerminate(c) ==
    LET t     == BOOTSTRAP_TOKEN
        s     == c.states[t]
        alive == {u \in s.children : c.states[u].kind # "none"}
        ended == RemoveStates(c, alive)
        quiet == IF s.sd_meta = "Some" THEN CancelTimeout(ended, t, 1) ELSE ended
    IN  CancelTimeout(RemoveState(quiet, t), t, 0)

\* A mistaken maybe_terminate: BootstrapFailed is sent twice.
BootstrapMaybeTerminateTwice(c) ==
    IF c.states[BOOTSTRAP_TOKEN].children = {}
    THEN BootstrapFailed(BootstrapFailed(BootstrapTerminate(c)))
    ELSE c

BootstrapMaybeTerminate(c) ==
    IF c.states[BOOTSTRAP_TOKEN].children = {}
    THEN BootstrapFailed(BootstrapTerminate(c))
    ELSE c

\* begin_bootstrap: n sockets take a token and those in reg are registered.
\* Without a contact the attempt ends before any socket is opened.
BeginBootstrap(c, contacts, n, reg) ==
    LET children == {c.token_counter + i - 1 : i \in reg}
        trying   == [c EXCEPT !.states = [t \in Token |->
                        CASE t = BOOTSTRAP_TOKEN ->
                               [@[t] EXCEPT !.children = children, !.sd_meta = "None"]
                          [] t \in children -> TryPeerState
                          [] OTHER -> @[t]]]
    IN  IF ~contacts
        THEN BootstrapTerminate(BootstrapFailed(c))
        ELSE BootstrapMaybeTerminate(GetNewTokens(trying, n))

SeekOutcome == {"no_cache", "disabled", "seeking", "error"}

\* Bootstrap::start, called by service.rs when BOOTSTRAP_TOKEN has no state.
\* Without a cache file nothing has happened yet; an error of seek_peers drops
\* the Timeout of timer 0 without cancelling it.
BootstrapStart(c, seek, contacts, n, reg) ==
    LET t       == BOOTSTRAP_TOKEN
        called  == [c EXCEPT !.user.owed = @ + 1]
        sd_meta == IF seek = "seeking" THEN "Some" ELSE "None"
        started == InsertState(SetTimeout(called, t, 0), t, BootstrapState(sd_meta))
    IN  CASE seek = "no_cache" -> BootstrapFailed(called)
          [] seek = "error"    -> BootstrapFailed(LeakTimeout(called, t, 0))
          [] seek = "seeking"  -> SetTimeout(started, t, 1)
          [] OTHER             -> BeginBootstrap(started, contacts, n, reg)

\* timeout: id 0 ends the attempt, id 1 ends service discovery (and unwraps
\* sd_meta, which is why it must be Some: TimersMatchStates of Node).
BootstrapTimeout(c, id, contacts, n, reg) ==
    IF id = 0
    THEN BootstrapTerminate(BootstrapFailed(c))
    ELSE BeginBootstrap(c, contacts, n, reg)

-----------------------------------------------------------------------------

\* handle_result; deny is "none" (the connection failed), "fatal" (wrong
\* name hash, not reachable) or "whitelist" (not whitelisted).
HandleResultError(c, t, deny) ==
    LET removed == RemoveChild(c, BOOTSTRAP_TOKEN, t)
    IN  IF deny = "fatal"
        THEN BootstrapFailed(BootstrapTerminate(removed))
        ELSE BootstrapMaybeTerminate(removed)

HandleResultOk(c, t, p, outcome) ==
    LET removed == RemoveChild(c, BOOTSTRAP_TOKEN, t)
    IN  ActiveStart(BootstrapTerminate(removed), t, p, "BootstrapConnect", outcome)

TryPeerError(c, t, deny) ==
    LET removed == RemoveState(c, t)
    IN  IF Live(c, BOOTSTRAP_TOKEN, "Bootstrap")
        THEN HandleResultError(removed, t, deny)
        ELSE removed

TryPeerGranted(c, t, p, outcome) ==
    LET removed == RemoveState(c, t)
    IN  IF Live(c, BOOTSTRAP_TOKEN, "Bootstrap")
        THEN HandleResultOk(removed, t, p, outcome)
        ELSE removed

=============================================================================
