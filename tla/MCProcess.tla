----------------------------- MODULE MCProcess -----------------------------
(***************************************************************************)
(* What a process of the service does on its own, without the database:    *)
(* PayloadLimits and Logging over the same growing value, and the          *)
(* RateLimiter.  The two halves share nothing, so a behaviour has steps of *)
(* one of them only.  And values for the constants that a cfg cannot write *)
(* down.                                                                   *)
(***************************************************************************)
EXTENDS PayloadLimits, Logging, RateLimiter

MCSecretKey  == [name |-> "signing key", length |-> 32]
MCDbPassword == [name |-> "database password", length |-> 8]
MCShort      == [name |-> "short password", length |-> 7]
MCSecrets    == {MCSecretKey, MCDbPassword, MCShort}

\* A short text, one beyond the limit with a secret, one in another script,
\* a token.
MCShortText == Text("a", 1)
MCLongText  == [Text("long", 4) EXCEPT !.contains = {MCDbPassword}]
MCTexts == {MCShortText, MCLongText, [Text("e acute", 2) EXCEPT !.non_ascii = 1],
            [Text("x.y.z", 3) EXCEPT !.jwt = TRUE]}

MCKeyTexts == {Text("k", 1), Text("overlong", 8), [Text("pwd", 3) EXCEPT !.credential = TRUE]}

MCSiblings == {Str(MCShortText), Str(MCLongText), List(<<>>)}

MCRequestIds == {Text("id", 2), [Text("a.jwt.id", 8) EXCEPT !.jwt = TRUE]}
MCTracebacks == {[Text("Traceback", 50) EXCEPT !.contains = {MCSecretKey}]}

values == <<value, nesting, logging>>

\* The behaviours of the limiter start from one of the values.
LimiterTurn == value = Scalar /\ nesting = 0 /\ handlers = <<>>

ProcessInit == GrowInit /\ LoggingInit /\ Init

ProcessNext ==
    \/ record = None /\ Init /\ Grow /\ UNCHANGED <<logging, vars>>
    \/ Init /\ LoggingNext /\ UNCHANGED <<value, nesting, vars>>
    \/ LimiterTurn /\ Next /\ UNCHANGED values

ProcessSpec == ProcessInit /\ [][ProcessNext]_<<values, vars>>
=============================================================================
