---------------------------- MODULE SessionRecords ----------------------------
(***************************************************************************)
(* What internal/session reads back: the replay window given to the model  *)
(* (history.go), the records of a session file and the sidecar laid over   *)
(* them (session.go), the names of the files (keys.go), the listing        *)
(* (store.go), the timestamps (isoformat.go, timefmt.go); and the sessions *)
(* kept in memory only (transient.go).                                     *)
(***************************************************************************)
EXTENDS Integers, Sequences, FiniteSets, SequencesExt

(***************************************************************************)
(* Replay.  A message is [role, calls, answers, cmd, delivery, blank,      *)
(* cost]: the ids of the tool calls it makes, the id it answers ("" none), *)
(* whether it is the trace of a command, a proactive delivery, without     *)
(* text, and its estimated tokens.  Positions count from 0, as in the code.*)
(***************************************************************************)
Tail0(ms, start) == SubSeq(ms, start + 1, Len(ms))

pySliceStart(i, n) ==
    LET j == IF i < 0 THEN i + n ELSE i
    IN  IF j < 0 THEN 0 ELSE IF j > n THEN n ELSE j

Users(ms) == {i \in 0..(Len(ms) - 1) : ms[i + 1].role = "user"}

FirstOf(S) == CHOOSE i \in S : \A j \in S : i <= j

LastOf(S) == CHOOSE i \in S : \A j \in S : j <= i

recentMessageStartIndex(ms, maxMessages, extendToUser) ==
    LET start  == IF Len(ms) > maxMessages THEN Len(ms) - maxMessages ELSE 0
        before == {i \in Users(ms) : i < start}
    IN  IF \/ ~extendToUser \/ Len(ms) <= maxMessages
           \/ \E i \in Users(ms) : i >= start
           \/ before = {}
        THEN start
        ELSE LET u == LastOf(before)
             IN  IF u > 0 /\ ms[u].delivery THEN u - 1 ELSE u

FindLegalMessageStart(ms) ==
    LET scan[n \in 0..Len(ms)] ==
            IF n = 0 THEN [start |-> 0, declared |-> {}]
            ELSE LET m == ms[n] s == scan[n - 1]
                 IN  CASE m.role = "assistant" ->
                             [s EXCEPT !.declared = @ \cup (m.calls \ {""})]
                       [] m.role = "tool" /\ m.answers # "" /\ m.answers \notin s.declared ->
                             [start |-> n, declared |-> {}]
                       [] OTHER -> s
    IN  scan[Len(ms)].start

Cost(ms) == FoldSeq(LAMBDA m, sum : sum + m.cost, 0, ms)

\* The newest messages that fit, at least one.
Fitting(out, maxTokens) ==
    LET fits == {k \in 1..Len(out) : k = 1 \/ \A j \in 2..k : Cost(Tail0(out, Len(out) - j)) <= maxTokens}
    IN  Tail0(out, Len(out) - LastOf(fits))

\* From the first user turn kept, else from the last there is.
Aligned(kept, out) ==
    IF Users(kept) # {} THEN Tail0(kept, FirstOf(Users(kept)))
    ELSE IF Users(out) # {} THEN Tail0(out, LastOf(Users(out)))
    ELSE kept

FromLegal(ms) == Tail0(ms, FindLegalMessageStart(ms))

trimHistoryNoBoundary(out, maxTokens) == Aligned(Fitting(out, maxTokens), out)

trimHistoryToTokens(out, maxTokens) == FromLegal(Aligned(Fitting(out, maxTokens), out))

\* Where the window starts: the archive mark and the newest maxMessages, the
\* first user turn (with a delivery it may answer), a legal tool boundary.
RecentStart(ms, lo, maxMessages, extendToUser) ==
    lo + IF maxMessages > 0 THEN recentMessageStartIndex(Tail0(ms, lo), maxMessages, extendToUser) ELSE 0

UserStart(ms, lo) ==
    LET us == {i \in Users(ms) : i >= lo}
        u  == FirstOf(us)
    IN  IF us = {} THEN lo ELSE IF u > lo /\ ms[u].delivery THEN u - 1 ELSE u

Window(ms, lastArchived, maxMessages, extendToUser) ==
    FromLegal(Tail0(ms, UserStart(ms, RecentStart(ms, pySliceStart(lastArchived, Len(ms)), maxMessages, extendToUser))))

Replayed(window) ==
    SelectSeq(window, LAMBDA m : ~m.cmd /\ ~(m.role = "assistant" /\ m.blank /\ m.calls = {}))

Trimmed(out, maxTokens) == IF maxTokens > 0 /\ out # <<>> THEN trimHistoryToTokens(out, maxTokens) ELSE out

GetHistory(ms, lastArchived, maxMessages, maxTokens, extendToUser) ==
    Trimmed(Replayed(Window(ms, lastArchived, maxMessages, extendToUser)), maxTokens)

(***************************************************************************)
(* Tool calls on disk: the nested shape of the OpenAI API.  Arguments are  *)
(* [kind, body]: "object", "text" (a string literal whose body may itself  *)
(* be JSON) or "none".                                                     *)
(***************************************************************************)
\* toolCallArguments: always a string; a literal is unwrapped, whether it holds
\* JSON (quoted) or not (text); nothing is {}.
toolCallArguments(args) ==
    CASE args.kind = "none" -> [json |-> TRUE,  body |-> "{}"]
      [] args.kind = "text" -> [json |-> FALSE, body |-> args.body]
      [] OTHER              -> [json |-> TRUE,  body |-> args.body]

encodeToolCalls(calls) ==
    [i \in DOMAIN calls |->
        [id |-> calls[i].id, flatName |-> "",
         function |-> [name |-> calls[i].name, arguments |-> toolCallArguments(calls[i].args)]]]

\* core.NormalizeToolArguments: a string that holds JSON becomes the value.
normalizeToolArguments(p) ==
    IF p.json THEN [kind |-> "object", body |-> p.body] ELSE [kind |-> "text", body |-> p.body]

convertFlat(items) ==
    [i \in DOMAIN items |->
        [id |-> items[i].id, name |-> items[i].flatName,
         args |-> normalizeToolArguments(items[i].function.arguments)]]

\* convertToolCalls: the function member wins over the flat one.
convertToolCalls(items) ==
    [i \in DOMAIN items |->
        [id |-> items[i].id,
         name |-> IF items[i].function.name # "" THEN items[i].function.name ELSE items[i].flatName,
         args |-> normalizeToolArguments(items[i].function.arguments)]]

(***************************************************************************)
(* The records of a session file: [type, ...] with type "metadata",        *)
(* "provider_state", "garbage" (not a JSON object) or a message.           *)
(***************************************************************************)
EmptySession == [messages |-> <<>>, meta |-> "", archived |-> 0, extra |-> "", provider |-> "",
                 updated |-> 0]

\* archiveOffset: last_archived, else the older name; -1 stands for a value
\* that is not an integer.
archiveOffset(r) == IF r.lastArchived >= 0 THEN r.lastArchived
                    ELSE IF r.lastConsolidated >= 0 THEN r.lastConsolidated ELSE 0

\* applyMetadataRecord: the whole record counts; an unreadable time is skipped.
applyMetadataRecord(s, r) ==
    [s EXCEPT !.meta = r.meta, !.archived = archiveOffset(r), !.extra = r.extra,
              !.updated = IF r.updated > 0 THEN r.updated ELSE @]

\* validProviderState, then applyProviderStateRecord: an invalid one clears.
validProviderState(p) == p \notin {"", "bad"}

applyProviderStateLenient(s, r) ==
    [s EXCEPT !.provider = IF validProviderState(r.state) THEN r.state ELSE @]

applyProviderStateRecord(s, r) ==
    [s EXCEPT !.provider = IF validProviderState(r.state) THEN r.state ELSE ""]

appendMessageRecord(s, r) == [s EXCEPT !.messages = Append(@, r)]

consumeRecords(records) ==
    FoldLeft(LAMBDA s, r :
        CASE r.type = "garbage"        -> s
          [] r.type = "metadata"       -> applyMetadataRecord(s, r)
          [] r.type = "provider_state" -> applyProviderStateRecord(s, r)
          [] OTHER                     -> appendMessageRecord(s, r),
        EmptySession, records)

\* saveLocked: one metadata record, the provider state if any, the messages.
SavedRecords(s) ==
    <<[type |-> "metadata", meta |-> s.meta, lastArchived |-> s.archived,
       lastConsolidated |-> s.archived, extra |-> s.extra, updated |-> s.updated]>>
    \o (IF s.provider = "" THEN <<>> ELSE <<[type |-> "provider_state", state |-> s.provider]>>)
    \o s.messages

\* overlayCheckpointLocked: [session, kept], kept telling whether the sidecar
\* stays on disk.  A sidecar is [newer, version, mine, updated, count, body, provider].
Overlay(s, sidecar) ==
    IF ~sidecar.newer \/ sidecar.version # 1 \/ ~sidecar.mine \/ sidecar.updated # s.updated
       \/ sidecar.count # Len(s.messages) \/ sidecar.body = ""
       \/ (sidecar.provider # "" /\ ~validProviderState(sidecar.provider))
    THEN [session |-> s, kept |-> FALSE]
    ELSE [session |-> [s EXCEPT !.meta = sidecar.body,
                                !.provider = IF sidecar.provider = "" THEN @ ELSE sidecar.provider],
          kept |-> TRUE]

\* List: canonical files by their first record, journals by their time; the
\* newer of the two dates a session, the newest session comes first.
ListSessions(files) ==
    LET listed   == {f \in files : f.kind = "journal" \/ f.firstIsMeta}
        keys     == {f.key : f \in listed}
        date(k)  == LET ds == {f.updated : f \in {g \in files : g.key = k
                                      /\ (g.kind = "journal" \/ g \in listed)}}
                    IN  CHOOSE d \in ds : \A e \in ds : e <= d
    IN  SetToSortSeq(keys, LAMBDA a, b : date(a) > date(b) \/ (date(a) = date(b) /\ a < b))

(***************************************************************************)
(* Names: base64url without padding.  A character of the URL-safe alphabet *)
(* is its six-bit value; the others are the codes below.                   *)
(***************************************************************************)
PadChar == 64               \* '='
StandardPlus == 65          \* '+', which stands for the value of '-'
OtherAscii == 66            \* outside the alphabet
NonAscii == 67

b64Value(c) == IF c = StandardPlus THEN 62 ELSE c

Bit(bytes, n) == (bytes[1 + n \div 8] \div (2 ^ (7 - (n % 8)))) % 2

StorageKey(bytes) ==
    LET bits == 8 * Len(bytes)
        at(n) == IF n < bits THEN Bit(bytes, n) ELSE 0
    IN  [i \in 1..((bits + 5) \div 6) |->
            FoldLeft(LAMBDA v, k : 2 * v + at(6 * (i - 1) + k), 0, <<0, 1, 2, 3, 4, 5>>)]

\* utf8.Valid: no stray, missing, overlong or surrogate sequence.
utf8Valid(b) ==
    LET within(i, lo, hi) == i \in DOMAIN b /\ lo <= b[i] /\ b[i] <= hi
        more(i) == within(i, 128, 191)
        from[i \in 1..(Len(b) + 1)] ==
            \/ i > Len(b)
            \/ within(i, 0, 127) /\ from[i + 1]
            \/ within(i, 194, 223) /\ more(i + 1) /\ from[i + 2]
            \/ /\ within(i, 224, 239) /\ more(i + 1) /\ more(i + 2)
               /\ (b[i] = 224 => b[i + 1] >= 160) /\ (b[i] = 237 => b[i + 1] < 160)
               /\ from[i + 3]
            \/ /\ within(i, 240, 244) /\ more(i + 1) /\ more(i + 2) /\ more(i + 3)
               /\ (b[i] = 240 => b[i + 1] >= 144) /\ (b[i] = 244 => b[i + 1] < 144)
               /\ from[i + 4]
    IN  from[1]

\* Characters outside the alphabet are skipped; the '=' after the last one in
\* it, those the length calls for included, are the padding.  A group left over
\* after the last whole byte is dropped.
DecodeStorageKey(stem) ==
    LET s        == stem \o [i \in 1..((4 - (Len(stem) % 4)) % 4) |-> PadChar]
        known(c) == c < PadChar \/ c = StandardPlus
        data     == SelectSeq(s, known)
        last     == FoldLeft(LAMBDA m, i : IF known(s[i]) THEN i ELSE m, 0, [i \in DOMAIN s |-> i])
        padding  == Cardinality({i \in DOMAIN s : i > last /\ s[i] = PadChar})
        rest     == Len(data) % 4
        at(n)    == (b64Value(data[1 + n \div 6]) \div (2 ^ (5 - (n % 6)))) % 2
        out      == [i \in 1..((6 * Len(data)) \div 8) |->
                        FoldLeft(LAMBDA v, k : 2 * v + at(8 * (i - 1) + k), 0,
                                 <<0, 1, 2, 3, 4, 5, 6, 7>>)]
    IN  IF \/ \E i \in DOMAIN stem : stem[i] = NonAscii
           \/ rest = 1 \/ (rest # 0 /\ padding < 4 - rest)
           \/ ~utf8Valid(out)
        THEN [ok |-> FALSE, key |-> <<>>]
        ELSE [ok |-> TRUE, key |-> out]

SessionKeyFromAnyStem(stem) == DecodeStorageKey(stem)

SessionKeyFromStem(stem) ==
    LET d == DecodeStorageKey(stem)
    IN  IF d.ok /\ StorageKey(d.key) = stem THEN d ELSE [ok |-> FALSE, key |-> <<>>]

(***************************************************************************)
(* Timestamps.  A character is its digit, or one of the codes below.       *)
(***************************************************************************)
Dash == 20
Colon == 21
LetterT == 22
LetterW == 23
Dot == 24
LetterZ == 25
Plus == 26
Nul == 99

at0(b, i) == IF i < 0 \/ i >= Len(b) THEN Nul ELSE b[i + 1]

isDigit(c) == c \in 0..9

\* parseDigits: the number read at p and whether every character was a digit.
Digits(b, p, n) ==
    [ok |-> \A i \in p..(p + n - 1) : isDigit(at0(b, i)),
     v  |-> FoldLeft(LAMBDA v, i : 10 * v + at0(b, p + i - 1), 0, [i \in 1..n |-> i])]

isLeap(y) == y % 4 = 0 /\ (y % 100 # 0 \/ y % 400 = 0)

daysInMonth(y, m) == IF m = 2 /\ isLeap(y) THEN 29
                     ELSE <<31, 28, 31, 30, 31, 30, 31, 31, 30, 31, 30, 31>>[m]

daysBeforeMonth(y, m) ==
    <<0, 31, 59, 90, 120, 151, 181, 212, 243, 273, 304, 334>>[m]
    + IF m > 2 /\ isLeap(y) THEN 1 ELSE 0

ymdToOrd(y, m, d) ==
    (y - 1) * 365 + (y - 1) \div 4 - (y - 1) \div 100 + (y - 1) \div 400 + daysBeforeMonth(y, m) + d

weekday(y, m, d) == (ymdToOrd(y, m, d) + 6) % 7

isoWeek1MondayEarly(y) ==
    LET first == ymdToOrd(y, 1, 1) IN first - ((first + 6) % 7)

isoWeek1Monday(y) ==
    LET first == ymdToOrd(y, 1, 1)
        wd    == (first + 6) % 7
    IN  first - wd + IF wd > 3 THEN 7 ELSE 0

\* isoToYMD, up to the day number the date stands for.
isoToOrd(y, week, day) ==
    LET last53 == weekday(y, 1, 1) = 3 \/ (weekday(y, 1, 1) = 2 /\ isLeap(y))
    IN  IF y < 1 \/ week <= 0 \/ week > 53 \/ (week = 53 /\ ~last53) \/ day <= 0 \/ day >= 8
        THEN [ok |-> FALSE, ord |-> 0]
        ELSE [ok |-> TRUE, ord |-> isoWeek1Monday(y) + (week - 1) * 7 + day - 1]

checkDateArgs(y, m, d) == y \in 1..9999 /\ m \in 1..12 /\ d >= 1 /\ d <= daysInMonth(y, m)

\* findISOFormatDatetimeSeparator: where the date ends; -1: no telling.
findISOFormatDatetimeSeparator(b) ==
    LET n == Len(b)
        run == CHOOSE i \in 7..(n + 7) : /\ i >= n \/ ~isDigit(at0(b, i))
                                         /\ \A j \in 7..(i - 1) : j < n /\ isDigit(at0(b, j))
    IN  IF n = 7 THEN 7
        ELSE IF at0(b, 4) = Dash
        THEN IF at0(b, 5) # LetterW THEN 10
             ELSE IF n < 8 THEN -1
             ELSE IF at0(b, 8) # Dash THEN 8
             ELSE IF n = 9 THEN -1
             ELSE IF n > 10 /\ isDigit(at0(b, 10)) THEN 8 ELSE 10
        ELSE IF at0(b, 4) = LetterW
        THEN IF run < 9 THEN run ELSE IF run % 2 = 0 THEN 7 ELSE 8
        ELSE 8

\* parseISOFormatDate: whether the date part is well formed and exists.
parseISOFormatDate(b, len) ==
    LET sep  == at0(b, 4) = Dash
        p    == IF sep THEN 5 ELSE 4
        year == Digits(b, 0, 4)
        week == Digits(b, p + 1, 2)
        q    == p + 3
        hasDay == len < 0 \/ q < len
        wd   == Digits(b, IF sep THEN q + 1 ELSE q, 1)
        mon  == Digits(b, p, 2)
        day  == Digits(b, IF sep THEN p + 3 ELSE p + 2, 2)
    IN  /\ year.ok
        /\ IF at0(b, p) = LetterW
           THEN /\ week.ok
                /\ hasDay => (~sep \/ at0(b, q) = Dash) /\ wd.ok
                /\ isoToOrd(year.v, week.v, IF hasDay THEN wd.v ELSE 1).ok
           ELSE /\ mon.ok /\ (sep => at0(b, p + 2) = Dash) /\ day.ok
                /\ checkDateArgs(year.v, mon.v, day.v)

\* The fraction from p on, six digits at most and the rest skipped: 0 when it
\* ends the text, 1 when characters are left, -1 when it is not digits.
Fraction(b, p, end) ==
    LET n    == IF end - p >= 6 THEN 6 ELSE end - p
        stop == CHOOSE q \in (p + n)..(Len(b) + 1) :
                    ~isDigit(at0(b, q)) /\ \A r \in (p + n)..(q - 1) : isDigit(at0(b, r))
    IN  IF ~Digits(b, p, n).ok THEN -1 ELSE IF at0(b, stop) # Nul THEN 1 ELSE 0

\* parseHHMMSSFF: [rv, hms] with rv as for Fraction and the parts read.
parseHHMMSSFF(b, start, end) ==
    LET colons == at0(b, start + 2) = Colon
        result(rv, hms) == [rv |-> rv, hms |-> hms]
        from[i \in 0..2, p \in 0..(Len(b) + 9)] ==
            LET d == Digits(b, p, 2)
                c == at0(b, p + 2)
                q == p + 3
                then(r) == result(r.rv, <<d.v>> \o r.hms)
            IN  CASE ~d.ok                  -> result(-1, <<>>)
                  [] d.ok /\ c = Dot        -> IF i < 2 \/ q >= end THEN result(-1, <<>>)
                                               ELSE result(Fraction(b, q, end), <<d.v>>)
                  [] d.ok /\ c # Dot /\ q >= end -> result(IF c # Nul THEN 1 ELSE 0, <<d.v>>)
                  [] OTHER ->
                       IF colons /\ c = Colon
                       THEN IF i = 2 THEN result(-1, <<>>) ELSE then(from[i + 1, q])
                       ELSE IF ~colons
                       THEN IF i = 2 THEN result(Fraction(b, q - 1, end), <<d.v>>)
                            ELSE then(from[i + 1, q - 1])
                       ELSE result(-1, <<>>)
    IN  from[0, start]

Part(hms, i) == IF i <= Len(hms) THEN hms[i] ELSE 0

\* Where the time ends and its zone starts, from start on.
ZoneAt(b, start) ==
    CHOOSE p \in start..(Len(b) + 1) :
        /\ at0(b, p) \in {LetterZ, Plus, Dash} \/ (p >= Len(b) /\ p > start)
        /\ \A q \in start..(p - 1) : at0(b, q) \notin {LetterZ, Plus, Dash} /\ (q < Len(b) \/ q = start)

\* parseISOFormatTime: [ok, hms, zone], zone being the offset in seconds; t and
\* z are what the texts before and after tz read as.
ZonedTime(b, tz, t, z) ==
    LET refused == [ok |-> FALSE, hms |-> <<>>, zone |-> 0]
        read(zone) == [ok |-> TRUE, hms |-> t.hms, zone |-> zone]
    IN  IF t.rv < 0 THEN refused
        ELSE IF tz = Len(b) THEN IF t.rv = 1 THEN refused ELSE read(0)
        ELSE IF at0(b, tz) = LetterZ THEN IF at0(b, tz + 1) # Nul THEN refused ELSE read(0)
        ELSE IF z.rv # 0 THEN refused
        ELSE read(Part(z.hms, 1) * 3600 + Part(z.hms, 2) * 60 + Part(z.hms, 3))

TimeBefore(b, start, tz) == ZonedTime(b, tz, parseHHMMSSFF(b, start, tz), parseHHMMSSFF(b, tz + 1, Len(b)))

parseISOFormatTime(b, start) == TimeBefore(b, start, ZoneAt(b, start))

\* checkTimeArgs, and midnight written as 24:00:00.
checkTimeArgs(hms) ==
    \/ Part(hms, 1) \in 0..23 /\ Part(hms, 2) \in 0..59 /\ Part(hms, 3) \in 0..59
    \/ Part(hms, 1) = 24 /\ Part(hms, 2) = 0 /\ Part(hms, 3) = 0

TimeOK(time) == time.ok /\ time.zone < 86400 /\ checkTimeArgs(time.hms)

DateTimeOK(b, sep) ==
    /\ Len(b) >= 7 /\ parseISOFormatDate(b, sep)
    /\ Len(b) > sep => TimeOK(parseISOFormatTime(b, IF sep + 1 > Len(b) THEN Len(b) ELSE sep + 1))

fromisoformatOK(b) == DateTimeOK(b, findISOFormatDatetimeSeparator(b))

\* formatNaive: the fraction only when there is one.
formatNaive(y, mo, d, h, mi, s, us) ==
    LET two(v) == <<v \div 10, v % 10>>
    IN  two(y \div 100) \o two(y % 100) \o <<Dash>> \o two(mo) \o <<Dash>> \o two(d) \o <<LetterT>>
        \o two(h) \o <<Colon>> \o two(mi) \o <<Colon>> \o two(s)
        \o IF us = 0 THEN <<>>
           ELSE <<Dot>> \o two(us \div 10000) \o two((us \div 100) % 100) \o two(us % 100)

\* formatOffset, appended to it for a time with a zone (seconds east).
formatOffset(z) ==
    LET a == IF z < 0 THEN -z ELSE z
    IN  <<IF z < 0 THEN Dash ELSE Plus, a \div 36000, (a \div 3600) % 10, Colon,
          ((a % 3600) \div 60) \div 10, ((a % 3600) \div 60) % 10>>

(***************************************************************************)
(* Sessions in memory only.                                                *)
(***************************************************************************)
CONSTANTS TrKeys, TrSetups  \* the keys; [room, ttl, steps]: the limits, scaled

VARIABLES
    trSetup,    \* the limits of this behaviour
    trLive,     \* key -> [id, used, messages], the store's map
    trHeld,     \* key -> the session a running turn holds, by id (0: none)
    trNow,      \* the clock
    trIds       \* sessions created so far

trVars == <<trSetup, trLive, trHeld, trNow, trIds>>

TrInit ==
    /\ trSetup \in TrSetups
    /\ trLive = <<>> /\ trHeld = [k \in TrKeys |-> 0] /\ trNow = 1 /\ trIds = 0

Without(live, k) == [j \in DOMAIN live \ {k} |-> live[j]]

EvictIdleOnly(live, keep, now) ==
    [k \in {j \in DOMAIN live : j = keep \/ now - live[j].used <= trSetup.ttl} |-> live[k]]

\* Of two sessions the one used last goes.
EvictNewest(live, keep, now) ==
    LET fresh  == [k \in {j \in DOMAIN live : j = keep \/ now - live[j].used <= trSetup.ttl} |-> live[k]]
        others == DOMAIN fresh \ {keep}
    IN  IF Cardinality(DOMAIN fresh) < trSetup.room \/ others = {} THEN fresh
        ELSE Without(fresh, CHOOSE k \in others : \A j \in others : fresh[k].used >= fresh[j].used)

\* evictLocked(keep): the idle ones, then the least recently used ones.
EvictSet(live, keep, now) ==
    LET fresh == [k \in {j \in DOMAIN live : j = keep \/ now - live[j].used <= trSetup.ttl} |-> live[k]]
        drop[n \in 0..Cardinality(DOMAIN fresh)] ==
            IF n = 0 THEN fresh
            ELSE LET m      == drop[n - 1]
                     others == DOMAIN m \ {keep}
                 IN  IF Cardinality(DOMAIN m) < trSetup.room \/ others = {} THEN m
                     ELSE Without(m, CHOOSE k \in others : \A j \in others : m[k].used <= m[j].used)
    IN  drop[Cardinality(DOMAIN fresh)]

\* Open: make room, then touch the session or create it.
TrOpen(k) ==
    /\ trNow < trSetup.steps /\ trHeld[k] = 0
    /\ LET room == EvictSet(trLive, k, trNow)
       IN  IF k \in DOMAIN room
           THEN /\ trLive' = [room EXCEPT ![k].used = trNow]
                /\ trHeld' = [trHeld EXCEPT ![k] = room[k].id] /\ UNCHANGED trIds
           ELSE /\ trIds' = trIds + 1
                /\ trLive' = [j \in DOMAIN room \cup {k} |->
                                 IF j = k THEN [id |-> trIds + 1, used |-> trNow, messages |-> 0]
                                 ELSE room[j]]
                /\ trHeld' = [trHeld EXCEPT ![k] = trIds + 1]
    /\ trNow' = trNow + 1 /\ UNCHANGED trSetup

\* AddMessage on the session the turn holds, whether the store still has it or not.
TrAdd(k) ==
    /\ trHeld[k] # 0 /\ trNow < trSetup.steps
    /\ trLive' = IF k \in DOMAIN trLive /\ trLive[k].id = trHeld[k]
                 THEN [trLive EXCEPT ![k].messages = @ + 1, ![k].used = trNow] ELSE trLive
    /\ trNow' = trNow + 1 /\ UNCHANGED <<trSetup, trHeld, trIds>>

\* The turn ends.
TrRelease(k) ==
    /\ trHeld[k] # 0 /\ trHeld' = [trHeld EXCEPT ![k] = 0]
    /\ UNCHANGED <<trSetup, trLive, trNow, trIds>>

TrDelete(k) ==
    /\ k \in DOMAIN trLive /\ trLive' = Without(trLive, k)
    /\ UNCHANGED <<trSetup, trHeld, trNow, trIds>>

TrNext == \E k \in TrKeys : TrOpen(k) \/ TrAdd(k) \/ TrRelease(k) \/ TrDelete(k)

\* The store never holds more sessions than its limit, however turns overlap,
\* and a session was used no later than now (transient.go, evictLocked).
TransientBounded ==
    /\ Cardinality(DOMAIN trLive) <= trSetup.room
    /\ \A k \in DOMAIN trLive : trLive[k].used < trNow

\* Opening a session discards, beyond the idle ones, only sessions used no
\* later than every session it keeps, and none of those when there is room; the
\* session being opened keeps its messages.
OpenDiscardsOldest ==
    [][\A k \in TrKeys : TrOpen(k) =>
        LET gone == DOMAIN trLive \ DOMAIN trLive'
        IN  /\ k \in DOMAIN trLive => k \in DOMAIN trLive' /\ trLive'[k].messages = trLive[k].messages
            /\ Cardinality(DOMAIN trLive) < trSetup.room =>
                   \A g \in gone : trNow - trLive[g].used > trSetup.ttl
            /\ \A g \in gone : \/ trNow - trLive[g].used > trSetup.ttl
                               \/ \A j \in (DOMAIN trLive \cap DOMAIN trLive') \ {k} :
                                      trLive[g].used <= trLive[j].used]_trVars

(***************************************************************************)
(* Properties of the functions, over the inputs a run enumerates.          *)
(***************************************************************************)
\* Whatever the limits, the replay answers no call it does not show: a tool
\* result is preceded by the message that made its call; it is a part of what
\* follows the archive mark, in order; and it keeps the newest user message.
ReplayLegal(ms, archived, maxMessages, maxTokens, extend) ==
    \A out \in {GetHistory(ms, archived, maxMessages, maxTokens, extend)}, lo \in {pySliceStart(archived, Len(ms))} :
        /\ \A i \in DOMAIN out : out[i].role = "tool" /\ out[i].answers # "" =>
               \E j \in 1..(i - 1) : out[j].role = "assistant" /\ out[i].answers \in out[j].calls
        /\ \E f \in [DOMAIN out -> (lo + 1)..Len(ms)] :
               /\ \A i \in DOMAIN out : out[i] = ms[f[i]]
               /\ \A i, j \in DOMAIN out : i < j => f[i] < f[j]
        /\ ms # <<>> /\ lo < Len(ms) /\ Last(ms).role = "user" /\ ~Last(ms).cmd =>
               out # <<>> /\ Last(out) = Last(ms)
        /\ maxTokens > 0 /\ Cost(out) > maxTokens =>
               Cardinality(Users(out)) <= 1

\* A tool call read back is the call that was written: the same name and id, and
\* the same arguments, where none at all are {} and a string that holds JSON is
\* the value it holds (toolCallArguments, normalizeToolArguments).  Read back
\* once more it does not change again.
CallsRoundTrip(calls) ==
    LET back  == convertToolCalls(encodeToolCalls(calls))
        again == convertToolCalls(encodeToolCalls(back))
        meant(args) == CASE args.kind = "none" -> [kind |-> "object", body |-> "{}"]
                         [] args.kind = "text" -> args
                         [] OTHER              -> [kind |-> "object", body |-> args.body]
    IN  /\ \A i \in DOMAIN calls :
               back[i] = [id |-> calls[i].id, name |-> calls[i].name, args |-> meant(calls[i].args)]
        /\ again = back

\* Saving what was loaded changes nothing the next load sees, and the last
\* metadata and provider records decide, wherever they stand.
LoadStable(records) ==
    LET s  == consumeRecords(records)
        of(t) == {i \in DOMAIN records : records[i].type = t}
    IN  /\ consumeRecords(SavedRecords(s)) = s
        /\ of("metadata") # {} => s.meta = records[LastOf(of("metadata"))].meta
        /\ of("provider_state") # {} =>
               s.provider = IF records[LastOf(of("provider_state"))].state = "bad" THEN ""
                            ELSE records[LastOf(of("provider_state"))].state

\* A sidecar taken from the session as it stands survives a save; one taken
\* from another state of it, or damaged, changes nothing and goes away.
SidecarSound(records, sidecar) ==
    LET s == consumeRecords(records)
        o == Overlay(s, sidecar)
        current == sidecar.newer /\ sidecar.mine /\ sidecar.updated = s.updated
                   /\ sidecar.count = Len(s.messages)
    IN  /\ consumeRecords(SavedRecords(o.session)) = o.session
        /\ ~current => o.session = s /\ ~o.kept
        /\ o.session.messages = s.messages

\* A session is listed once, and a later change of it moves it forward.
ListedOnce(files) ==
    LET l == ListSessions(files)
    IN  /\ Cardinality({l[i] : i \in DOMAIN l}) = Len(l)
        /\ \A f \in files : f.kind = "journal" \/ f.firstIsMeta => \E i \in DOMAIN l : l[i] = f.key
        /\ Len(l) > 0 => LET top == CHOOSE f \in files : f.key = l[1]
                         IN \A g \in files : (g.kind = "journal" \/ g.firstIsMeta) =>
                              \E f \in files : f.key = l[1] /\ f.updated >= g.updated

\* A key is read back from the name of its file exactly when it is valid UTF-8,
\* which the keys that reach the store as JSON text are; of the many names the
\* lenient decoder reads as one key, one is accepted as the name of a session.
KeysRoundTrip(bytes, stem) ==
    /\ SessionKeyFromStem(StorageKey(bytes)) =
           IF utf8Valid(bytes) THEN [ok |-> TRUE, key |-> bytes] ELSE [ok |-> FALSE, key |-> <<>>]
    /\ SessionKeyFromStem(stem).ok => StorageKey(SessionKeyFromStem(stem).key) = stem

\* Every time the program writes is one it accepts, with and without a
\* fraction or a zone; a time of day that does not exist is refused.
TimesAccepted(d, t, us, zone) ==
    LET text == formatNaive(d[1], d[2], d[3], t[1], t[2], t[3], us)
        good == {text, text \o formatOffset(zone)}
        bad  == {formatNaive(d[1], d[2], d[3], 24, 1, 0, 0), formatNaive(d[1], 2, 30, t[1], t[2], t[3], us)}
    IN  \A x \in good \cup bad : fromisoformatOK(x) <=> x \in good

\* The week dates of a year follow each other day by day, start on a Monday
\* and cover the year: week 1 holds January 4, the week after the last one is
\* week 1 of the next year.
WeeksTile(y) ==
    LET weeks == {w \in 1..54 : isoToOrd(y, w, 1).ok}
        lastW == LastOf(weeks)
    IN  /\ weeks = 1..lastW
        /\ isoToOrd(y, 1, 1).ord <= ymdToOrd(y, 1, 4) /\ ymdToOrd(y, 1, 4) <= isoToOrd(y, 1, 7).ord
        /\ isoToOrd(y, lastW, 7).ord + 1 = isoToOrd(y + 1, 1, 1).ord
        /\ \A w \in weeks : (isoToOrd(y, w, 1).ord + 6) % 7 = 0
===============================================================================
