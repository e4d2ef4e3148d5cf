--------------------------- MODULE HistoryQuery ---------------------------
(***************************************************************************)
(* The search of an administrator in the history of processed events: what *)
(* its parameters are taken to mean (parseHistoryFilters) and the rows     *)
(* that the one SQL query answers with.                                    *)
(*                                                                         *)
(* A parameter is a tuple: <<"undefined">>, <<"empty">> for '', <<"blank">> *)
(* for spaces, <<"time", t>> for a date, <<"digits", n>>, <<"text", s>>,   *)
(* <<"uuid", id>>, <<"long", s>> beyond the length allowed, or <<"other">> *)
(* (an array or an object).                                                *)
(***************************************************************************)
EXTENDS Integers, FiniteSets, Sequences

CONSTANTS
    MaxRange, DefaultRange,     \* of time, between from and to
    FutureSkew,                 \* how far to may lie ahead
    DefaultLimit, MaxLimit, MaxExportLimit,
    Searches, Table, Now        \* requests, the rows there are, the time of day

ASSUME LimitsAssumption ==
    /\ {MaxRange, DefaultRange, FutureSkew} \subseteq Nat /\ DefaultRange <= MaxRange
    /\ {DefaultLimit, MaxLimit, MaxExportLimit} \subseteq Nat \ {0}
    /\ DefaultLimit <= MaxLimit /\ DefaultLimit <= MaxExportLimit

All == <<"all">>

Missing(v) == v[1] \in {"undefined", "empty"}

IsDate(v) == Missing(v) \/ v[1] = "time"

Time(v, default) == IF v[1] = "time" THEN v[2] ELSE default

IsLimit(v, maximum) == Missing(v) \/ (v[1] = "digits" /\ v[2] \in 1 .. maximum)

(* A text that is too long is refused before it is trimmed. *)
IsOptionalText(v) == v[1] \notin {"long", "other"}

(* A mistake: a text is compared as it was typed, spaces and all. *)
Untrimmed(v) == IF Missing(v) THEN All ELSE v

OptionalText(v) == IF Missing(v) \/ v[1] = "blank" THEN All ELSE v

IsTenantId(v) == Missing(v) \/ v[1] = "uuid"

Outcomes == {<<"text", o>> : o \in {"applied", "stale", "ignored", "error"}}
IsOutcome(v) == Missing(v) \/ v \in Outcomes

To(q, now) == Time(q.to, now)
From(q, now) == Time(q.from, To(q, now) - DefaultRange)

(* The request q passes; if not it is answered with a 400. *)
IsValidQuery(q, now, export) ==
    /\ IsDate(q.from) /\ IsDate(q.to)
    /\ From(q, now) <= To(q, now)
    /\ To(q, now) <= now + FutureSkew
    /\ To(q, now) - From(q, now) <= MaxRange
    /\ IsLimit(q.limit, IF export THEN MaxExportLimit ELSE MaxLimit)
    /\ IsOptionalText(q.auctionId) /\ IsTenantId(q.tenantId) /\ IsOptionalText(q.eventType)
    /\ IsOutcome(q.outcome)

Criteria == {"auctionId", "tenantId", "eventType", "outcome"}

ParseHistoryFilters(q, now) ==
    [from |-> From(q, now), to |-> To(q, now),
     limit |-> IF Missing(q.limit) THEN DefaultLimit ELSE q.limit[2],
     criteria |-> [c \in Criteria |-> OptionalText(q[c])]]

Matches(row, filters) ==
    /\ filters.from <= row.processedAt /\ row.processedAt <= filters.to
    /\ \A c \in Criteria : filters.criteria[c] \in {All, row[c]}

(* ORDER BY processed_at DESC, id DESC LIMIT limit *)
Newer(r, s) ==
    r.processedAt > s.processedAt \/ (r.processedAt = s.processedAt /\ r.id > s.id)

Nth(rows, n) == CHOOSE r \in rows : Cardinality({s \in rows : Newer(s, r)}) = n - 1

Query(table, filters) ==
    LET rows == {row \in table : Matches(row, filters)}
        count == Cardinality(rows)
    IN [n \in 1 .. (IF count < filters.limit THEN count ELSE filters.limit) |-> Nth(rows, n)]

-----------------------------------------------------------------------------
(* Parameters as a query string may give them, and a table with its key.   *)
IsSearch(q) ==
    /\ \A v \in {q.from, q.to} : v[1] = "time" => v[2] \in Int
    /\ q.limit[1] = "digits" => q.limit[2] \in Nat
    /\ \A c \in Criteria :
         q[c][1] \in {"undefined", "empty", "blank", "text", "uuid", "long", "other"}

IsTable(table) ==
    /\ IsFiniteSet(table)
    /\ \A r, s \in table : r.id \in Int /\ r.processedAt \in Int /\ (r.id = s.id => r = s)

ASSUME SearchAssumption == Now \in Int /\ (\A q \in Searches : IsSearch(q)) /\ IsTable(Table)

-----------------------------------------------------------------------------
(* What an answer must be: rows that q asked for, newest first, at most as *)
(* many as allowed; and no row is missing that is as new as one returned,  *)
(* nor any at all while there was room.                                    *)
IsRightAnswer(q, now, export, table, rows) ==
    LET Asked(row) ==
          /\ q.to[1] = "time" => row.processedAt <= q.to[2]
          /\ q.from[1] = "time" => row.processedAt >= q.from[2]
          /\ \A c \in Criteria : q[c][1] \in {"uuid", "text"} => row[c] = q[c]
        InDefaultRange(row) ==
          /\ q.to[1] # "time" => row.processedAt <= now
          /\ q.from[1] # "time" =>
               row.processedAt >= (IF q.to[1] = "time" THEN q.to[2] ELSE now) - DefaultRange
        wanted == {row \in table : Asked(row) /\ InDefaultRange(row)}
        returned == {rows[n] : n \in DOMAIN rows}
        limit == IF q.limit[1] = "digits" THEN q.limit[2] ELSE DefaultLimit
    IN
    /\ returned \subseteq wanted /\ Cardinality(returned) = Len(rows)
    /\ \A m, n \in DOMAIN rows : m < n => Newer(rows[m], rows[n])
    /\ Len(rows) <= limit /\ limit <= (IF export THEN MaxExportLimit ELSE MaxLimit)
    /\ \A row \in wanted \ returned :
         Len(rows) = limit /\ \A n \in DOMAIN rows : Newer(rows[n], row)
    /\ \A row, s \in returned : row.processedAt - s.processedAt <= MaxRange

EveryAnswerIsRight ==
    \A q \in Searches, export \in BOOLEAN :
        IsValidQuery(q, Now, export) =>
            IsRightAnswer(q, Now, export, Table, Query(Table, ParseHistoryFilters(q, Now)))
=============================================================================
