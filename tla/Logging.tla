------------------------------ MODULE Logging ------------------------------
(***************************************************************************)
(* Structured logging: log_security_event, the formatter of the one        *)
(* handler it ends in, and the sanitizer every record goes through.        *)
(*                                                                         *)
(* The fields of a call are the dictionary in value.  A traceback is one   *)
(* text.  Timestamp, level and logger name of a line are left out, as is   *)
(* the level filter: the service logs at INFO and above.                   *)
(***************************************************************************)
EXTENDS JsonValues, TLC

CONSTANTS
    Secrets,       \* the secrets there may be: [name, length]
    SecretKey,     \* settings.secret_key
    DbPassword,    \* password in settings.database_url, or None
    RequestIds,    \* correlation ids: texts
    Tracebacks,    \* tracebacks of exceptions that are logged: texts
    MaxConfigured, \* bound: calls of configure_logging
    None

ASSUME LoggingAssumption == {SecretKey, DbPassword} \subseteq Secrets \cup {None}

VARIABLES
    handlers,   \* the logger's handlers, each by its formatter's known secrets
    configured, \* calls of configure_logging so far
    record,     \* the record that was logged, or None
    lines       \* what the handlers wrote of it

logging == <<handlers, configured, record, lines>>

-----------------------------------------------------------------------------
(* The sanitizer.                                                          *)

REDACTED_VALUE == Text("[REDACTED]", 10)

MIN_KNOWN_SECRET_LENGTH == 8

filter_known_secrets(values) ==
    {s \in values : s # None /\ s.length >= MIN_KNOWN_SECRET_LENGTH}

known_secret_values == filter_known_secrets({SecretKey, DbPassword})

is_sensitive_key(key) == key.credential

contains_a_known_secret(text, known_secrets) == text.contains \cap known_secrets # {}

RECURSIVE sanitize_value(_, _), sanitize_log_fields(_, _)

sanitize_value(v, known_secrets) ==
    CASE v.kind = "str" -> IF v.text.jwt \/ contains_a_known_secret(v.text, known_secrets)
                           THEN Str(REDACTED_VALUE) ELSE v
      [] v.kind = "dict" -> sanitize_log_fields(v, known_secrets)
      [] v.kind = "list" -> List([i \in DOMAIN v.elements |-> sanitize_value(v.elements[i], known_secrets)])
      [] OTHER -> v

sanitize_log_fields(fields, known_secrets) ==
    Dict([key \in DOMAIN fields.items |->
            IF is_sensitive_key(key) THEN Str(REDACTED_VALUE)
                                     ELSE sanitize_value(fields.items[key], known_secrets)])

-----------------------------------------------------------------------------
(* The formatter and its handler.                                          *)

\* What a record's line has: its fields over event and correlation id, and
\* over them all the traceback.
Line(rec) ==
    LET extra == rec.fields.items @@ [k \in {Text("event", 5)} |-> Str(rec.event)]
                   @@ [k \in {Text("correlationId", 13)} |-> Str(rec.correlation_id)]
    IN  Dict(IF rec.exc_info = None THEN extra
             ELSE [k \in {Text("exception", 9)} |-> Str(rec.exc_info)] @@ extra)

\* Mutant: the traceback is added to what was sanitized.
format_then_trace(rec, known_secrets) ==
    LET sanitized == sanitize_log_fields(Line([rec EXCEPT !.exc_info = None]), known_secrets)
    IN  IF rec.exc_info = None THEN sanitized
        ELSE Dict([k \in {Text("exception", 9)} |-> Str(rec.exc_info)] @@ sanitized.items)

\* JSONLogFormatter.format, up to json.dumps.
format(rec, known_secrets) == sanitize_log_fields(Line(rec), known_secrets)

LoggingInit == handlers = <<>> /\ configured = 0 /\ record = None /\ lines = <<>>

\* Mutant: the handlers there are stay.
configure_logging_again ==
    /\ configured < MaxConfigured /\ record = None
    /\ handlers' = Append(handlers, known_secret_values)
    /\ configured' = configured + 1
    /\ UNCHANGED <<record, lines>>

configure_logging ==
    /\ configured < MaxConfigured /\ record = None
    /\ handlers' = <<known_secret_values>>
    /\ configured' = configured + 1
    /\ UNCHANGED <<record, lines>>

log_security_event ==
    /\ handlers # <<>> /\ record = None
    /\ value.kind = "dict"
    /\ \E id \in RequestIds, exc_info \in Tracebacks \cup {None} :
         record' = [event |-> Text("event.name", 10), correlation_id |-> id,
                    exc_info |-> exc_info, fields |-> value]
    /\ lines' = [i \in DOMAIN handlers |-> format(record', handlers[i])]
    /\ UNCHANGED <<handlers, configured>>

LoggingNext == configure_logging \/ log_security_event

-----------------------------------------------------------------------------
(* Correctness.                                                            *)

\* However often logging was configured, an event leaves one line.
OneLinePerEvent == (record # None) => Len(lines) = 1

\* A line says what was logged but for what must not be said: below a key
\* that names a credential there is the marker only; in place of a text, at
\* any depth, the traceback and the ids included, that is a JWT or contains
\* a secret of the deployment of 8 characters or more, the marker; and
\* nothing else is added, dropped or changed.
LinesSayAllButSecrets ==
    \A i \in DOMAIN lines :
      LET logged  == Nodes(Line(record))
          written == Nodes(lines[i])
          Hidden(path) == \E n \in 1..(Len(path) - 1) : path[n].key.credential
          Reveals(text) == text.jwt \/ \E s \in text.contains :
                                          s \in {SecretKey, DbPassword} /\ s.length >= 8
      IN  /\ DOMAIN written = {path \in DOMAIN logged : ~Hidden(path)}
          /\ \A path \in DOMAIN written :
               LET node == logged[path]
               IN  IF \/ path # <<>> /\ path[Len(path)].key.credential
                      \/ node.kind = "str" /\ Reveals(node.text)
                   THEN written[path] = Str(REDACTED_VALUE)
                   ELSE /\ written[path].kind = node.kind
                        /\ (node.kind = "str") => (written[path].text = node.text)
=============================================================================
