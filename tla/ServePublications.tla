-------------------------- MODULE ServePublications --------------------------
(* What the node publishes for the application: ServeForward and ServeClear on  *)
(* the serve configuration of the node (localapi.go), the Funnel forwarders of  *)
(* the package (funnel_forward.go), and stopLocked, which takes both down.  The *)
(* worker executes one call at a time; the configuration is stored by the node  *)
(* and outlives it, the tables of the package do not outlive the process.       *)
(*                                                                              *)
(* Abstracted: targets and the proxying of requests; the validation of ports,   *)
(* addresses and paths (a mount is a normalised path); a call that fails before *)
(* it has written anything.  A port serves no TCP forwarding of another kind.   *)
CONSTANTS
    Hosts,      \* the DNS names that the node has had
    Ports,
    Mounts

VARIABLES
    svUp,              \* srv is set
    svHost,            \* external: the DNS name of the node
    svWeb,             \* external: the paths of the stored serve configuration
    svTcp,             \* external: the ports it listens on
    svTracked,         \* servePublications
    svTargets,         \* the targets of funnelForwarders
    svListeners,       \* external: the ports of the open Funnel listeners
    svFunnelTracked    \* funnelPublications

svConfig == <<svWeb, svTcp, svTracked>>
svFunnel == <<svTargets, svListeners, svFunnelTracked>>
svVars == <<svUp, svHost, svConfig, svFunnel>>

\* servePublicationKey; a mapping of either kind.
SvKey == [host : Hosts, port : Ports, path : Mounts]
SvHere(p, m) == [host |-> svHost, port |-> p, path |-> m]
SvAt(keys, h, p) == {k \in keys : k.host = h /\ k.port = p}

SvTypeOK ==
    /\ svUp \in BOOLEAN /\ svHost \in Hosts
    /\ svWeb \cup svTracked \cup svTargets \cup svFunnelTracked \subseteq SvKey
    /\ svTcp \cup svListeners \subseteq Ports

SvInit ==
    /\ svUp = FALSE /\ svHost \in Hosts
    /\ svWeb = {} /\ svTcp = {} /\ svTracked = {}
    /\ svTargets = {} /\ svListeners = {} /\ svFunnelTracked = {}

SvStart == ~svUp /\ svUp' = TRUE /\ UNCHANGED <<svHost, svConfig, svFunnel>>

\* The node is renamed, in its tailnet or by joining another one.
SvRename ==
    /\ \E h \in Hosts : h # svHost /\ svHost' = h
    /\ UNCHANGED <<svUp, svConfig, svFunnel>>
-----------------------------------------------------------------------------
(* The serve configuration: read, changed and written back. *)

\* Mutant: only what the node serves under the name it has now.
SvEmptiedHere(removed) ==
    {p \in Ports : SvAt(svWeb, svHost, p) # {} /\ SvAt(svWeb, svHost, p) \subseteq removed}

\* The ports that close with these paths: where nothing is left of a host, the port goes,
\* whatever another name of the node serves there.
SvEmptied(removed) ==
    {p \in Ports : \E h \in Hosts : SvAt(svWeb, h, p) # {} /\ SvAt(svWeb, h, p) \subseteq removed}

\* delete(web.Handlers, mount), for each of these paths.
SvRemove(removed) ==
    svWeb' = svWeb \ removed /\ svTcp' = svTcp \ SvEmptied(removed)

SvForward(p, m) ==
    /\ svUp
    /\ svWeb' = svWeb \cup {SvHere(p, m)} /\ svTcp' = svTcp \cup {p}
    /\ svTracked' = svTracked \cup {SvHere(p, m)}
    /\ UNCHANGED <<svUp, svHost, svFunnel>>

\* Mutant: whatever the port serves is forgotten.
SvPortUntracked(p, m) == {k \in svTracked : k.port # p}

\* untrackServePublication, under the name the node has now.
SvUntracked(p, m) == svTracked \ {SvHere(p, m)}

SvClear(p, m) ==
    /\ svUp
    /\ SvRemove({SvHere(p, m)})
    /\ svTracked' = SvUntracked(p, m)
    /\ UNCHANGED <<svUp, svHost, svFunnel>>
-----------------------------------------------------------------------------
(* The Funnel forwarders: one listener to a port, for one name. *)

\* startFunnelForward, the node being up and its listener to be had.
SvFunnelForward(p, m) ==
    /\ svUp /\ \A k \in svTargets : k.port = p => k.host = svHost
    /\ svTargets' = svTargets \cup {SvHere(p, m)} /\ svListeners' = svListeners \cup {p}
    /\ svFunnelTracked' = svFunnelTracked \cup {SvHere(p, m)}
    /\ UNCHANGED <<svUp, svHost, svConfig>>

\* clearFunnelForward takes the name of the forwarder, not of the node.
SvFunnelClear(p, m) ==
    /\ svUp
    /\ LET gone == {k \in svTargets : k.port = p /\ k.path = m}
           named == {[host |-> k.host, port |-> p, path |-> m] : k \in {t \in svTargets : t.port = p}}
           last == \A k \in svTargets : k.port = p => k \in gone
       IN  /\ svTargets' = svTargets \ gone
           /\ svFunnelTracked' = svFunnelTracked \ named
           /\ svListeners' = IF last THEN svListeners \ {p} ELSE svListeners
    /\ UNCHANGED <<svUp, svHost, svConfig>>

\* closeAllFunnelForwarders
SvCloseFunnel ==
    /\ svTargets' = {} /\ svListeners' = {}
    /\ svFunnelTracked' = IF svTargets = {} THEN {} ELSE svFunnelTracked \ svTargets
-----------------------------------------------------------------------------
(* The end of the node and of the process. *)

\* closeAllServePublications takes the keys first: if the configuration cannot be read or
\* written then, nobody knows them any more.
SvCloseServe ==
    /\ svTracked' = {}
    /\ SvRemove(svTracked) \/ UNCHANGED <<svWeb, svTcp>>

\* stopLocked, for a stop or before the state directory is kept.
SvStop ==
    /\ svUp /\ svUp' = FALSE
    /\ SvCloseServe /\ SvCloseFunnel
    /\ UNCHANGED svHost

\* stopLocked, for a logout or a new key: the state directory goes, and the configuration with it.
SvStopAndWipe ==
    /\ svUp' = FALSE
    /\ svWeb' = {} /\ svTcp' = {} /\ svTracked' = {} /\ SvCloseFunnel
    /\ UNCHANGED svHost

\* The process is killed.
SvKilled ==
    /\ svUp' = FALSE
    /\ svTracked' = {} /\ UNCHANGED <<svWeb, svTcp>>
    /\ svTargets' = {} /\ svListeners' = {} /\ svFunnelTracked' = {}
    /\ UNCHANGED svHost
-----------------------------------------------------------------------------
SvNext ==
    \/ SvStart \/ SvRename \/ SvKilled \/ SvStop \/ SvStopAndWipe
    \/ \E p \in Ports, m \in Mounts :
         SvForward(p, m) \/ SvClear(p, m) \/ SvFunnelForward(p, m) \/ SvFunnelClear(p, m)

SvSpec == SvInit /\ [][SvNext]_svVars
-----------------------------------------------------------------------------
\* While the node is up, nothing is served that the package will not remove when it goes down,
\* except what was already so: under whatever names a path was published and cleared.
ServedStaysKnown == [][svUp' => svWeb' \ svTracked' \subseteq svWeb \ svTracked]_svVars

\* "serve.forward is process-scoped in this package, not a persistent background ...
\* configuration surface" (serve.dart:111-114): a node that is up serves what this process has
\* published.  The configuration that a killed process left is served by the node of the next.
PublicationsProcessScoped == svUp => svWeb \subseteq svTracked

\* The package keeps no publication for a node that is down.
TrackedWhileUp == ~svUp => svTracked = {}

\* The node listens on a port only as long as some path is served there.
NoIdlePort == \A p \in svTcp : \E k \in svWeb : k.port = p

\* The two tables of the Funnel agree with each other and with the listeners, and nothing is
\* open to the public once the node is down.
FunnelTablesAgree ==
    /\ svFunnelTracked = svTargets
    /\ svListeners = {k.port : k \in svTargets}
    /\ ~svUp => svTargets = {}

\* The ports of the configuration and the tables of the package follow what is published, through
\* renames, failures and restarts.
PublicationsAccounted == TrackedWhileUp /\ NoIdlePort /\ FunnelTablesAgree
=============================================================================
