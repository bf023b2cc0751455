------------------------------ MODULE Whitelist ------------------------------
(***************************************************************************)
(* The configuration shared by the states of a Service, and the whitelist  *)
(* in it: ConfigWrapper (src/src/main/types.rs), the periodic              *)
(* ConfigRefresher (src/src/main/config_refresher.rs), the checks made by  *)
(* incoming handshakes                                                     *)
(* (src/src/main/connection_listener/exchange_msg.rs) and by               *)
(* Service::connect, all racing with edits of the config file.             *)
(*                                                                         *)
(* A peer stands for its IP address and has at most one connection here;   *)
(* Option<HashSet<IpAddr>> is a set of peers, None is {Anyone}.            *)
(***************************************************************************)
EXTENDS Naturals

CONSTANTS Peer,
          NodeLists,      \* the values given to whitelisted_node_ips
          ClientLists,    \* the values given to whitelisted_client_ips
          Anyone,         \* {Anyone} is None: there is no whitelist
          MaxEdits        \* bound: edits of the config file

ASSUME AnyoneAssumption == Anyone \notin Peer

Config == [Node : NodeLists, Client : ClientLists]
CrustUser == {"Node", "Client"}
Listed(p, list) == p \in list \/ Anyone \in list

VARIABLES file,                          \* the config file
          cfg,                           \* ConfigWrapper::cfg
          is_modified_for_next_refresh,
          armed,                         \* the refresher's timer is set
          refresher,                     \* the ConfigRefresher state exists
          conn,                          \* the connection with each peer
          edits

vars == <<file, cfg, is_modified_for_next_refresh, armed, refresher, conn, edits>>

(* A connection has passed its check ("checked") and becomes "active" when *)
(* the handshake is done.  `ours': a contact we bootstrap from, which is   *)
(* not checked.  History `late': the configuration was replaced between    *)
(* the check and the end of the handshake.                                 *)
Closed == [stage |-> "closed", kind |-> "Node", ours |-> FALSE, late |-> FALSE]
Checked(kind, ours) == [stage |-> "checked", kind |-> kind, ours |-> ours, late |-> FALSE]

Init ==
    /\ cfg \in Config
    /\ file = cfg
    /\ is_modified_for_next_refresh = FALSE
    /\ armed = TRUE
    /\ refresher = TRUE
    /\ conn = [p \in Peer |-> Closed]
    /\ edits = 0

EditFile(c) ==
    /\ edits < MaxEdits
    /\ edits' = edits + 1
    /\ file' = c
    /\ UNCHANGED <<cfg, is_modified_for_next_refresh, armed, refresher, conn>>

(* Connections whose handshake is overtaken if cfg becomes c.              *)
Overtaken(c) ==
    [p \in Peer |-> IF conn[p].stage = "checked" /\ c # cfg
                    THEN [conn[p] EXCEPT !.late = TRUE] ELSE conn[p]]

-----------------------------------------------------------------------------
(* Handshakes                                                              *)

(* Mistaken TryUpdates: the next refresh is not told; a file that cannot   *)
(* be read counts as an empty one.                                         *)
TryUpdateUnmarked(read) ==
    /\ cfg' = IF read THEN file ELSE cfg
    /\ UNCHANGED is_modified_for_next_refresh

(* try_update_crust_config: check_for_update_and_mark_modified, if the     *)
(* file can be read.                                                       *)
TryUpdate(read) ==
    /\ cfg' = IF read THEN file ELSE cfg
    /\ is_modified_for_next_refresh' =
          (is_modified_for_next_refresh \/ cfg' # cfg)

(* handle_bootstrap_req and handle_connect of an incoming handshake: the   *)
(* configuration is brought up to date and the peer looked up in it.       *)
Incoming(p, kind, read) ==
    /\ conn[p].stage = "closed"
    /\ TryUpdate(read)
    /\ conn' = [Overtaken(cfg') EXCEPT
                  ![p] = IF Listed(p, cfg'[kind]) THEN Checked(kind, FALSE) ELSE Closed]
    /\ UNCHANGED <<file, armed, refresher, edits>>

(* Service::connect keeps the addresses that are listed now.               *)
Outgoing(p) ==
    /\ conn[p].stage = "closed"
    /\ Listed(p, cfg.Node)
    /\ conn' = [conn EXCEPT ![p] = Checked("Node", FALSE)]
    /\ UNCHANGED <<file, cfg, is_modified_for_next_refresh, armed, refresher, edits>>

(* Bootstrap connects to its contacts, listed or not.                      *)
BootstrapTo(p) ==
    /\ conn[p].stage = "closed"
    /\ conn' = [conn EXCEPT ![p] = Checked("Node", TRUE)]
    /\ UNCHANGED <<file, cfg, is_modified_for_next_refresh, armed, refresher, edits>>

(* The handshake ends in ActiveConnection::start.                          *)
BecomeActive(p) ==
    /\ conn[p].stage = "checked"
    /\ conn' = [conn EXCEPT ![p].stage = "active"]
    /\ UNCHANGED <<file, cfg, is_modified_for_next_refresh, armed, refresher, edits>>

(* The handshake fails, or the connection is lost or disconnected.         *)
Close(p) ==
    /\ conn[p].stage # "closed"
    /\ conn' = [conn EXCEPT ![p] = Closed]
    /\ UNCHANGED <<file, cfg, is_modified_for_next_refresh, armed, refresher, edits>>

-----------------------------------------------------------------------------
(* ConfigRefresher::timeout                                                *)

(* check_for_refresh_and_reset_modified                                    *)
ShouldRefresh == file # cfg \/ is_modified_for_next_refresh

(* The active connections that the new lists do not allow.                 *)
ToTerminate(c) ==
    {p \in Peer : conn[p].stage = "active" /\ ~Listed(p, c[conn[p].kind])}

(* The timer fires and is set again; then the file is read, and if the     *)
(* configuration changed now or since the last time the connections that   *)
(* are not listed are terminated.                                          *)
Refresh ==
    /\ refresher /\ armed
    /\ cfg' = file
    /\ is_modified_for_next_refresh' = FALSE
    /\ conn' = [p \in Peer |-> IF ShouldRefresh /\ p \in ToTerminate(file) THEN Closed
                               ELSE Overtaken(file)[p]]
    /\ UNCHANGED <<file, armed, refresher, edits>>

(* A mistaken RefreshUnreadable: it returns before the timer is set again. *)
RefreshUnreadableDisarmed ==
    /\ refresher /\ armed
    /\ armed' = FALSE
    /\ UNCHANGED <<file, cfg, is_modified_for_next_refresh, refresher, conn, edits>>

(* The file cannot be read this time.                                      *)
RefreshUnreadable ==
    /\ refresher /\ armed
    /\ armed' = TRUE
    /\ UNCHANGED <<file, cfg, is_modified_for_next_refresh, refresher, conn, edits>>

(* The timer cannot be set again: the refresher terminates.                *)
RefresherEnds ==
    /\ refresher /\ armed
    /\ refresher' = FALSE
    /\ armed' = FALSE
    /\ UNCHANGED <<file, cfg, is_modified_for_next_refresh, conn, edits>>

Next ==
    \/ \E c \in Config : EditFile(c)
    \/ \E p \in Peer :
         \/ \E kind \in CrustUser, read \in BOOLEAN : Incoming(p, kind, read)
         \/ Outgoing(p) \/ BootstrapTo(p) \/ BecomeActive(p) \/ Close(p)
    \/ Refresh \/ RefreshUnreadable \/ RefresherEnds

(* The timer keeps firing, and a file that is read again and again is      *)
(* readable once in a while.                                               *)
Fairness == SF_vars(Refresh)

Spec == Init /\ [][Next]_vars
FairSpec == Spec /\ Fairness

-----------------------------------------------------------------------------
(* Properties                                                              *)

(* Type invariant.                                                         *)
TypeOK ==
    /\ file \in Config /\ cfg \in Config
    /\ is_modified_for_next_refresh \in BOOLEAN
    /\ armed \in BOOLEAN /\ refresher \in BOOLEAN
    /\ conn \in [Peer -> [stage : {"closed", "checked", "active"}, kind : CrustUser,
                          ours : BOOLEAN, late : BOOLEAN]]
    /\ edits \in 0..MaxEdits

(* The peers connected to us that the configuration in force does not      *)
(* allow, apart from those we have ourselves bootstrapped from.            *)
Unlisted ==
    {p \in Peer : /\ conn[p].stage = "active"
                  /\ ~conn[p].ours
                  /\ ~Listed(p, cfg[conn[p].kind])}

(* When a configuration takes effect, by the refresher or by a handshake   *)
(* that happens to read it first, every connection it no longer allows is  *)
(* dropped at once or at the next refresh.                                 *)
UnlistedWillBePurged ==
    \A p \in Unlisted : conn[p].late \/ is_modified_for_next_refresh

(* As long as the refresher lives, an edit of the file takes effect.       *)
EditsTakeEffect == (cfg # file) ~> (cfg = file \/ ~refresher)
=============================================================================
