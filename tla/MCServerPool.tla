---------------------------- MODULE MCServerPool ----------------------------
(***************************************************************************)
(* Values for the constants of ServerPool that a cfg cannot write down.    *)
(***************************************************************************)
EXTENDS ServerPool

\* A replay holds the lock longest; a redaction, which ends in an append,
\* waits for it with a connection; two readiness reports wait for the
\* connections of the two; the liveness report waits behind them all.
MCKindOf == [r \in Requests |->
    CASE r = "p" -> "replay" [] r = "x" -> "redact" [] r = "l" -> "live"
      [] OTHER   -> "ready"]
=============================================================================
