------------------------- MODULE ConnectionMachine -------------------------
(***************************************************************************)
(* The per-project connection state machine of                             *)
(* electron/main/providers/connectionMachine.ts, as the operators every    *)
(* other module of the session layer is built from.  A provider owns one   *)
(* machine; each toX() intent of the class is Apply(from, to).             *)
(***************************************************************************)

\* ConnectionState
ConnStates ==
    {"disconnected", "connecting", "connected", "reconnecting", "failed"}

\* The LEGAL edge set, in the order of the source.
Legal ==
    { <<"disconnected", "connecting">>,
      <<"connecting", "connected">>,
      <<"connecting", "failed">>,
      <<"connecting", "disconnected">>,
      <<"connected", "disconnected">>,
      <<"connected", "reconnecting">>,
      <<"reconnecting", "connected">>,
      <<"reconnecting", "failed">>,
      <<"failed", "connecting">> }

\* isLegal(from, to): also what coalesces a repeated toConnecting or
\* toReconnecting, since no edge leads from a state to itself.
Accepts(from, to) == <<from, to>> \in Legal

\* apply(to): an illegal intent is logged and leaves the machine as it was.
Apply(from, to) == IF Accepts(from, to) THEN to ELSE from
=============================================================================
