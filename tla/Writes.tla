-------------------------------- MODULE Writes --------------------------------
(***************************************************************************)
(* Writes of values and of histories: the updates of a request are handled  *)
(* one after the other, with awaits within and between them.                *)
(*                                                                          *)
(* Source: i3x_server/api/v1/monolithic.py, object_value_routes.py,         *)
(* write_validation.py.                                                     *)
(***************************************************************************)
EXTENDS Naturals, Sequences

-----------------------------------------------------------------------------
(* Writes: an update u is what the server and the schema say when asked:    *)
(* id ("ok", "bad"), node ("property", "asset", "none"), schema ("accepts", *)
(* "rejects", "missing"), access ("ok", "denied", "raises", "service": it   *)
(* fails with BadServiceUnsupported), same (is the value there already?),   *)
(* variant ("ok", "raises", "other") and write (how the write itself ends). *)
(* A request is a sequence of them; context is whether the types can be     *)
(* resolved.                                                                *)

\* WriteValueValidator.validate: 200 when it accepts; tried counts the attempts to load
\* the types, which happen for the first update that needs them.
Validate(v, context, u) ==
    IF v.failed THEN [v EXCEPT !.code = 502]
    ELSE LET w == IF v.loaded THEN v ELSE [v EXCEPT !.tried = @ + 1, !.loaded = context, !.failed = ~context]
         IN  [w EXCEPT !.code = IF ~context \/ u.schema = "missing" THEN 502
                                ELSE IF u.schema = "rejects" THEN 400 ELSE 200]
NewValidator == [loaded |-> FALSE, failed |-> FALSE, tried |-> 0, code |-> 200]

NeedsSchema(u) == u.id = "ok" /\ u.node = "property"

\* Fault: the type of the value is tested only when it was read.
WriteOutcome_untyped(u) ==
    IF u.access \in {"raises", "service"} THEN <<502, "kept">>
    ELSE IF u.access = "denied" THEN <<IF u.same THEN 200 ELSE 403, "kept">>
    ELSE IF u.write = "unsupported" THEN <<501, "sent">>
    ELSE <<IF u.write = "ok" THEN 200 ELSE 502, "sent">>
\* What follows the schema in _write_object_value_by_element_id: <<code, "sent" or "kept">>
WriteOutcome(u) ==
    IF u.access \in {"raises", "service"} THEN <<502, "kept">>
    ELSE IF u.access = "denied" THEN <<IF u.same THEN 200 ELSE 403, "kept">>
    ELSE IF u.variant = "raises" THEN <<502, "kept">>
    ELSE IF u.variant = "other" THEN <<400, "kept">>
    ELSE IF u.write = "unsupported" THEN <<501, "sent">>
    ELSE <<IF u.write = "ok" THEN 200 ELSE 502, "sent">>

\* One round of update_object_values_v1: the result of the update u.
WriteValue(w, context, u) ==
    LET checked == IF NeedsSchema(u) THEN Validate(w.validator, context, u) ELSE w.validator
        result == IF u.id = "bad" THEN <<400, "kept">>
                  ELSE IF u.node = "none" THEN <<404, "kept">>
                  ELSE IF u.node = "asset" THEN <<400, "kept">>
                  ELSE IF checked.code # 200 THEN <<checked.code, "kept">>
                  ELSE WriteOutcome(u)
    IN  [results |-> Append(w.results, result), validator |-> checked]
NewWrites == [results |-> <<>>, validator |-> NewValidator]

\* Fault: any answer of that status means the service is missing.
Latches_any(u) == u.access = "service" \/ u.write \in {"service", "operation"}
\* The service is known to be missing once an update was answered so.
Latches(u) == u.access = "ok" /\ u.write = "service"

HistoryOutcome(u) ==
    IF u.access \in {"raises", "service"} THEN <<502, "kept">>
    ELSE IF u.access = "denied" THEN <<403, "kept">>
    ELSE IF u.write \in {"service", "operation"} THEN <<501, "sent">>
    ELSE IF u.write = "argument" THEN <<400, "sent">>
    ELSE <<IF u.write = "ok" THEN 200 ELSE 502, "sent">>

\* One round of update_historical_values_v1
WriteHistory(w, context, u) ==
    LET checked == IF u.node = "property" THEN Validate(w.validator, context, u) ELSE w.validator
        sent == u.node = "property" /\ checked.code = 200 /\ w.support # "unsupported"
        result == IF u.node = "none" THEN <<404, "kept">>
                  ELSE IF u.node = "asset" THEN <<400, "kept">>
                  ELSE IF checked.code # 200 THEN <<checked.code, "kept">>
                  ELSE IF w.support = "unsupported" THEN <<501, "kept">>
                  ELSE HistoryOutcome(u)
    IN  [results |-> Append(w.results, result), validator |-> checked,
         support |-> IF sent /\ Latches(u) THEN "unsupported" ELSE w.support]

\* known is what the client knows of the server beforehand.
NewHistories(known) == [results |-> <<>>, validator |-> NewValidator, support |-> known]

\* The status of update_historical_values_v1 after the last round.
HistoryStatus(w) ==
    IF w.support = "unsupported" /\ \A k \in DOMAIN w.results : w.results[k][1] # 200 THEN 501 ELSE 200
=============================================================================
