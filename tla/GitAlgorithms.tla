----------------------------- MODULE GitAlgorithms -----------------------------
(***************************************************************************)
(* The computations behind the memory repository and the edit reports: the *)
(* two line differs (gitstore/pydifflib.go, filediff), the comparison of   *)
(* trees (gitstore/worktree.go), packed objects (gitstore/pack.go) and the *)
(* ignore rules that decide what is staged (gitstore/gitignore.go).        *)
(* Positions count from 0 and ranges exclude their end, as in the code.    *)
(***************************************************************************)
EXTENDS Integers, Sequences, FiniteSets, SequencesExt, Bitwise

CONSTANT WordBits   \* bits in a word of a bit vector; 64 in the code

Slice(s, lo, hi) == SubSeq(s, lo + 1, hi)
Least(S) == CHOOSE x \in S : \A y \in S : x <= y
Greatest(S) == CHOOSE x \in S : \A y \in S : x >= y
Lower(a, b) == IF a < b THEN a ELSE b
Higher(a, b) == IF a > b THEN a ELSE b

(***************************************************************************)
(* The differ of Python's difflib.  No line is junk and nothing is popular *)
(* below 200 lines.                                                        *)
(***************************************************************************)
\* findLongestMatch: a longest common run, the first in a, then the first in b.
findLongestMatch(a, b, alo, ahi, blo, bhi) ==
    LET size(i, j) == Greatest({k \in 0..Lower(ahi - i, bhi - j) : Slice(a, i, i + k) = Slice(b, j, j + k)})
        ends  == {<<i, j>> \in (alo..(ahi - 1)) \X (blo..(bhi - 1)) : a[i + 1] = b[j + 1]}
        best  == Greatest({size(p[1], p[2]) : p \in ends})
        found == {p \in ends : size(p[1], p[2]) = best}
    IN  IF ends = {} THEN [i |-> alo, j |-> blo, k |-> 0]
        ELSE LET f == CHOOSE p \in found : \A q \in found :
                          p[1] < q[1] \/ (p[1] = q[1] /\ p[2] <= q[2])
             IN  [i |-> f[1], j |-> f[2], k |-> best]

\* The matches left and right of the longest one, in order.
RECURSIVE MatchesIn(_, _, _, _, _, _)
MatchesIn(a, b, alo, ahi, blo, bhi) ==
    LET x == findLongestMatch(a, b, alo, ahi, blo, bhi)
    IN  IF x.k = 0 THEN <<>>
        ELSE (IF alo < x.i /\ blo < x.j THEN MatchesIn(a, b, alo, x.i, blo, x.j) ELSE <<>>)
             \o <<x>>
             \o (IF x.i + x.k < ahi /\ x.j + x.k < bhi
                 THEN MatchesIn(a, b, x.i + x.k, ahi, x.j + x.k, bhi) ELSE <<>>)

\* getMatchingBlocks: adjacent ones joined, and the empty one at the end.
getMatchingBlocks(a, b) ==
    LET join(bs, m) ==
            IF bs # <<>> /\ Last(bs).i + Last(bs).k = m.i /\ Last(bs).j + Last(bs).k = m.j
            THEN [bs EXCEPT ![Len(bs)].k = @ + m.k] ELSE Append(bs, m)
    IN  Append(FoldLeft(join, <<>>, MatchesIn(a, b, 0, Len(a), 0, Len(b))),
               [i |-> Len(a), j |-> Len(b), k |-> 0])

Op(tag, i1, i2, j1, j2) == [tag |-> tag, i1 |-> i1, i2 |-> i2, j1 |-> j1, j2 |-> j2]

getOpcodes(a, b) ==
    LET step(s, m) ==
            LET tag  == CASE s.i < m.i /\ s.j < m.j -> "replace"
                          [] s.i < m.i /\ s.j >= m.j -> "delete"
                          [] s.i >= m.i /\ s.j < m.j -> "insert"
                          [] OTHER -> ""
            IN  [i |-> m.i + m.k, j |-> m.j + m.k,
                 ops |-> s.ops \o (IF tag = "" THEN <<>> ELSE <<Op(tag, s.i, m.i, s.j, m.j)>>)
                               \o (IF m.k = 0 THEN <<>>
                                   ELSE <<Op("equal", m.i, m.i + m.k, m.j, m.j + m.k)>>)]
    IN  FoldLeft(step, [i |-> 0, j |-> 0, ops |-> <<>>], getMatchingBlocks(a, b)).ops

\* Leading and trailing equal lines cut down to n lines of context.
Shortened(c, n) == Op(c.tag, Higher(c.i1, c.i2 - n), c.i2, Higher(c.j1, c.j2 - n), c.j2)
Clipped(c, n) == Op(c.tag, c.i1, Lower(c.i2, c.i1 + n), c.j1, Lower(c.j2, c.j1 + n))
CutHead(codes, n) == IF codes[1].tag = "equal" THEN [codes EXCEPT ![1] = Shortened(@, n)] ELSE codes
CutTail(codes, n) == IF Last(codes).tag = "equal" THEN [codes EXCEPT ![Len(codes)] = Clipped(@, n)] ELSE codes
CutEnds(codes, n) == CutTail(CutHead(codes, n), n)

\* The next group starts where the equal run does.
GroupedOverlapping(codes, n) ==
    LET step(s, c) ==
            IF c.tag = "equal" /\ c.i2 - c.i1 > 2 * n
            THEN [groups |-> Append(s.groups, Append(s.group, Clipped(c, n))),
                  group  |-> <<c>>]
            ELSE [s EXCEPT !.group = Append(@, c)]
    IN  FoldLeft(step, [groups |-> <<>>, group |-> <<>>], codes)

\* Long equal runs end one group and start the next.
Grouped(codes, n) ==
    LET step(s, c) ==
            IF c.tag = "equal" /\ c.i2 - c.i1 > 2 * n
            THEN [groups |-> Append(s.groups, Append(s.group, Clipped(c, n))),
                  group  |-> <<Shortened(c, n)>>]
            ELSE [s EXCEPT !.group = Append(@, c)]
    IN  FoldLeft(step, [groups |-> <<>>, group |-> <<>>], codes)

\* The last group counts unless it is empty or one equal run.
WithLast(r) ==
    IF r.group # <<>> /\ ~(Len(r.group) = 1 /\ r.group[1].tag = "equal")
    THEN Append(r.groups, r.group) ELSE r.groups

OrOneEqual(ops) == IF ops = <<>> THEN <<Op("equal", 0, 1, 0, 1)>> ELSE ops

getGroupedOpcodes(a, b, n) == WithLast(Grouped(CutEnds(OrOneEqual(getOpcodes(a, b)), n), n))

\* formatRangeUnified: where a hunk starts and how long it is.
formatRangeUnified(start, stop) ==
    [at |-> IF stop = start THEN start ELSE start + 1, length |-> stop - start]

\* The body of a hunk: [sign, line].
HunkLines(a, b, group) ==
    LET marked(sign, lines) == [x \in DOMAIN lines |-> [sign |-> sign, line |-> lines[x]]]
        one(op) == CASE op.tag = "equal"   -> marked(" ", Slice(a, op.i1, op.i2))
                     [] op.tag = "delete"  -> marked("-", Slice(a, op.i1, op.i2))
                     [] op.tag = "insert"  -> marked("+", Slice(b, op.j1, op.j2))
                     [] op.tag = "replace" -> marked("-", Slice(a, op.i1, op.i2))
                                              \o marked("+", Slice(b, op.j1, op.j2))
    IN  FlattenSeq([x \in DOMAIN group |-> one(group[x])])

Hunks(a, b, groups) ==
    [x \in DOMAIN groups |->
        [old  |-> formatRangeUnified(groups[x][1].i1, Last(groups[x]).i2),
         new  |-> formatRangeUnified(groups[x][1].j1, Last(groups[x]).j2),
         body |-> HunkLines(a, b, groups[x])]]

unifiedDiff(a, b, n) == Hunks(a, b, getGroupedOpcodes(a, b, n))

(***************************************************************************)
(* The differ of the edit reports: a longest common subsequence on bit     *)
(* vectors, words first to last.                                           *)
(***************************************************************************)
WordMod == 2 ^ WordBits
Words(n) == (n + WordBits - 1) \div WordBits

\* The vector with these bits set.
BitsOf(S, n) ==
    [w \in 1..Words(n) |-> FoldLeft(LAMBDA v, k : v + IF (w - 1) * WordBits + k \in S THEN 2 ^ k ELSE 0, 0,
                                    [k \in 1..WordBits |-> k - 1])]

test(v, bit) == (v[1 + bit \div WordBits] \div (2 ^ (bit % WordBits))) % 2 = 1
popcountBelow(v, n) == Cardinality({bit \in 0..(n - 1) : test(v, bit)})
andBitvec(a, b) == [w \in DOMAIN a |-> a[w] & b[w]]
orBitvec(a, b) == [w \in DOMAIN a |-> a[w] | b[w]]

addNoCarry(a, b) == [w \in DOMAIN a |-> (a[w] + b[w]) % WordMod]

\* Carries and borrows run from word to word; the last one is lost.
addBitvec(a, b) ==
    LET carry[w \in 0..Len(a)] == IF w = 0 THEN 0 ELSE (a[w] + b[w] + carry[w - 1]) \div WordMod
    IN  [w \in DOMAIN a |-> (a[w] + b[w] + carry[w - 1]) % WordMod]

subBitvec(a, b) ==
    LET borrow[w \in 0..Len(a)] == IF w = 0 THEN 0 ELSE IF a[w] - b[w] - borrow[w - 1] < 0 THEN 1 ELSE 0
    IN  [w \in DOMAIN a |-> (a[w] - b[w] - borrow[w - 1] + WordMod) % WordMod]

\* lcsMatrix: the vector after each line of s2, and how many lines are common.
lcsMatrix(s1, s2) ==
    LET n == Len(s1)
        matches(line) == BitsOf({j \in 0..(n - 1) : s1[j + 1] = line}, n)
        row[i \in 0..Len(s2)] ==
            IF i = 0 THEN BitsOf(0..(n - 1), n)
            ELSE LET s == row[i - 1] u == andBitvec(s, matches(s2[i]))
                 IN  orBitvec(addBitvec(s, u), subBitvec(s, u))
    IN  IF n = 0 THEN [sim |-> 0, matrix |-> <<>>]
        ELSE [sim |-> n - popcountBelow(row[Len(s2)], n), matrix |-> [i \in 1..Len(s2) |-> row[i]]]

\* commonAffix: the prefix first, the suffix in what is left.
commonAffix(s1, s2) ==
    LET m      == Lower(Len(s1), Len(s2))
        prefix == Greatest({k \in 0..m : Slice(s1, 0, k) = Slice(s2, 0, k)})
        suffix == Greatest({k \in 0..(m - prefix) :
                      Slice(s1, Len(s1) - k, Len(s1)) = Slice(s2, Len(s2) - k, Len(s2))})
    IN  [prefix |-> prefix, suffix |-> suffix]

\* The walk back through the matrix from (col, row): edits, first to last.
RECURSIVE EditsTo(_, _, _)
EditsTo(matrix, col, row) ==
    CASE row = 0 /\ col = 0 -> <<>>
      [] row = 0 /\ col > 0 -> Append(EditsTo(matrix, col - 1, 0), [tag |-> "delete", src |-> col - 1, dest |-> 0])
      [] row > 0 /\ col = 0 -> Append(EditsTo(matrix, 0, row - 1), [tag |-> "insert", src |-> 0, dest |-> row - 1])
      [] OTHER ->
           IF test(matrix[row], col - 1)
           THEN Append(EditsTo(matrix, col - 1, row), [tag |-> "delete", src |-> col - 1, dest |-> row])
           ELSE IF row > 1 /\ ~test(matrix[row - 1], col - 1)
           THEN Append(EditsTo(matrix, col, row - 1), [tag |-> "insert", src |-> col, dest |-> row - 1])
           ELSE EditsTo(matrix, col - 1, row - 1)

\* opsToOpcodes: runs of one edit become one opcode, what lies between is equal.
opsToOpcodes(ops, srcLen, destLen) ==
    LET gap(s, src, dest) == IF s.src < src \/ s.dest < dest
                             THEN <<Op("equal", s.src, src, s.dest, dest)>> ELSE <<>>
        step(s, e) ==
            LET grown == s.out # <<>> /\ Last(s.out).tag = e.tag /\ s.src = e.src /\ s.dest = e.dest
                src2  == e.src + IF e.tag = "delete" THEN 1 ELSE 0
                dest2 == e.dest + IF e.tag = "insert" THEN 1 ELSE 0
            IN  [src |-> src2, dest |-> dest2,
                 out |-> IF grown THEN [s.out EXCEPT ![Len(s.out)].i2 = src2, ![Len(s.out)].j2 = dest2]
                         ELSE s.out \o gap(s, e.src, e.dest) \o <<Op(e.tag, e.src, src2, e.dest, dest2)>>]
        end == FoldLeft(step, [src |-> 0, dest |-> 0, out |-> <<>>], ops)
    IN  end.out \o gap(end, srcLen, destLen)

\* The edits between what the affixes leave of the two texts.
Edits(s1, s2) == EditsTo(lcsMatrix(s1, s2).matrix, Len(s1), Len(s2))
EditsWithin(before, after, x) ==
    Edits(Slice(before, x.prefix, Len(before) - x.suffix), Slice(after, x.prefix, Len(after) - x.suffix))
Shifted(ops, by) == [k \in DOMAIN ops |-> [ops[k] EXCEPT !.src = @ + by, !.dest = @ + by]]
OpcodesWithin(before, after, x) ==
    opsToOpcodes(Shifted(EditsWithin(before, after, x), x.prefix), Len(before), Len(after))
IndelOpcodes(before, after) == OpcodesWithin(before, after, commonAffix(before, after))

\* FileDiffFromText: the counts shown with an edit.
CountedOps(ops) ==
    FoldLeft(LAMBDA t, o : [deleted |-> t.deleted + IF o.tag \in {"replace", "delete"} THEN o.i2 - o.i1 ELSE 0,
                            added   |-> t.added + IF o.tag \in {"replace", "insert"} THEN o.j2 - o.j1 ELSE 0],
             [deleted |-> 0, added |-> 0], ops)
LineDiffStats(before, after) == CountedOps(IndelOpcodes(before, after))

\* Groups and UnifiedLines of an edit report; the last group only if it changes.
Changing(codes) == \E x \in DOMAIN codes : codes[x].tag # "equal"
WithLastChange(r) == IF Changing(r.group) THEN Append(r.groups, r.group) ELSE r.groups
ReportGroups(ops, context) ==
    IF Changing(ops) THEN WithLastChange(Grouped(CutEnds(ops, context), context)) ELSE <<>>
FileDiffHunks(before, after, context) ==
    Hunks(before, after, ReportGroups(IndelOpcodes(before, after), context))

(***************************************************************************)
(* Trees.  A name is a sequence of character codes, Slash among them; an   *)
(* entry is [name, kind, body] with kind "tree", "file" or "link" and the  *)
(* body standing for the object id: a blob, or the set of entries below.   *)
(***************************************************************************)
Slash == 2

\* Byte order.
NameLess(x, y) ==
    \/ Len(x) < Len(y) /\ IsPrefix(x, y)
    \/ \E k \in 1..Lower(Len(x), Len(y)) : x[k] < y[k] /\ \A l \in 1..(k - 1) : x[l] = y[l]

treeEntryKey(e) == IF e.kind = "tree" THEN Append(e.name, Slash) ELSE e.name

\* encodeTree, read back by parseTree: the entries in git's order.
treeEntries(tree) == SetToSortSeq(tree, LAMBDA d, e : NameLess(treeEntryKey(d), treeEntryKey(e)))

\* The merge of two lists; it compares plain names, not the order they are in.
RECURSIVE Paired(_, _)
Paired(s, t) ==
    CASE s = <<>> -> [x \in DOMAIN t |-> <<{}, {t[x]}>>]
      [] s # <<>> /\ t = <<>> -> [x \in DOMAIN s |-> <<{s[x]}, {}>>]
      [] OTHER -> IF NameLess(s[1].name, t[1].name) THEN <<<<{s[1]}, {}>>>> \o Paired(Tail(s), t)
                  ELSE IF NameLess(t[1].name, s[1].name) THEN <<<<{}, {t[1]}>>>> \o Paired(s, Tail(t))
                  ELSE <<<<{s[1]}, {t[1]}>>>> \o Paired(Tail(s), Tail(t))

changeForOneSided(f1, f2, path) ==
    IF f1 = f2 THEN {} ELSE {[path |-> path, old |-> f1, new |-> IF f1 # {} THEN {} ELSE f2]}

\* changeFor: [path, old, new]; a change of type is a removal and an addition.
changeFor(f1, f2, path) ==
    LET gone == {[path |-> path, old |-> f1, new |-> {}]}
        come == {[path |-> path, old |-> {}, new |-> f2]}
        kinds == {e.kind : e \in f1 \cup f2}
    IN  IF f1 # {} /\ f2 # {}
        THEN IF Cardinality(kinds) > 1 THEN gone \cup come
             ELSE IF f1 = f2 THEN {} ELSE {[path |-> path, old |-> f1, new |-> f2]}
        ELSE IF f1 # {} THEN gone ELSE come

\* walkChanges, on sets of at most one entry.
RECURSIVE walkChanges(_, _, _)
walkChanges(t1, t2, prefix) ==
    LET pairs == Paired(treeEntries(t1), treeEntries(t2))
        files(S) == {e \in S : e.kind # "tree"}
        below(S) == UNION {e.body : e \in S \ files(S)}
        one(p) == LET name == (CHOOSE e \in p[1] \cup p[2] : TRUE).name
                  IN  IF p[1] = p[2] /\ files(p[1]) = {} THEN {}
                      ELSE (IF files(p[1]) \cup files(p[2]) = {} THEN {}
                            ELSE changeFor(files(p[1]), files(p[2]), Append(prefix, name)))
                           \cup (IF files(p[1]) = p[1] /\ files(p[2]) = p[2] THEN {}
                                 ELSE walkChanges(below(p[1]), below(p[2]), Append(prefix, name)))
    IN  UNION {one(pairs[x]) : x \in DOMAIN pairs}

treeChanges(t1, t2) == walkChanges(t1, t2, <<>>)

(***************************************************************************)
(* Packed objects.  Bytes are numbers; inflating is left out.              *)
(***************************************************************************)
\* readVarint at p: seven bits a byte, low ones first.
readVarint(delta, p) ==
    LET ends == {q \in p..Len(delta) : delta[q] < 128}
        q    == Least(ends)
    IN  IF ends = {} THEN [ok |-> FALSE, v |-> 0, p |-> p]
        ELSE [ok |-> TRUE, p |-> q + 1,
              v |-> FoldLeft(LAMBDA v, k : v + (delta[k] % 128) * 2 ^ (7 * (k - p)), 0,
                             [k \in 1..(q - p + 1) |-> p + k - 1])]

Flag(op, i) == (op \div (2 ^ i)) % 2

\* A copy instruction: up to four offset bytes, then up to three size bytes;
\* a size of 0 stands for 65536.  A fourth offset byte other than 0 is beyond
\* every base of the model.
CopyAt(base, delta, p) ==
    LET op   == delta[p]
        used(i) == Cardinality({j \in 0..(i - 1) : Flag(op, j) = 1})
        byte(i) == IF Flag(op, i) = 1 THEN delta[p + 1 + used(i)] ELSE 0
        off  == byte(0) + 256 * byte(1) + 65536 * byte(2)
        n    == byte(4) + 256 * byte(5) + 65536 * byte(6)
        size == IF n = 0 THEN 65536 ELSE n
    IN  IF \/ p + used(7) > Len(delta) \/ byte(3) # 0
           \/ off + size > Len(base)
        THEN [ok |-> FALSE, out |-> <<>>, p |-> p]
        ELSE [ok |-> TRUE, out |-> Slice(base, off, off + size), p |-> p + 1 + used(7)]

\* The instructions from p on, after out.
RECURSIVE DeltaFrom(_, _, _, _)
DeltaFrom(base, delta, p, out) ==
    LET n == delta[p]
        c == CopyAt(base, delta, p)
    IN  IF p > Len(delta) THEN [ok |-> TRUE, out |-> out]
        ELSE IF n >= 128
        THEN IF c.ok THEN DeltaFrom(base, delta, c.p, out \o c.out) ELSE [ok |-> FALSE, out |-> <<>>]
        ELSE IF n = 0 \/ p + n > Len(delta) THEN [ok |-> FALSE, out |-> <<>>]
        ELSE DeltaFrom(base, delta, p + n + 1, out \o SubSeq(delta, p + 1, p + n))

applyDelta(base, delta) ==
    LET src  == readVarint(delta, 1)
        dst  == readVarint(delta, src.p)
        body == DeltaFrom(base, delta, dst.p, <<>>)
        refused == [ok |-> FALSE, out |-> <<>>]
    IN  IF ~src.ok THEN refused ELSE IF src.v # Len(base) THEN refused
        ELSE IF ~dst.ok THEN refused
        ELSE IF ~body.ok \/ Len(body.out) # dst.v THEN refused ELSE body

\* readObjectFrom: an offset holds [kind, data] or, for kind "ofs", a delta
\* against the object `back` earlier; maxDepth is 64 in the code.
RECURSIVE readObjectFrom(_, _, _, _)
readObjectFrom(pack, offset, depth, maxDepth) ==
    LET o       == pack[offset]
        base    == readObjectFrom(pack, offset - o.back, depth + 1, maxDepth)
        applied == applyDelta(base.data, o.data)
        refused == [ok |-> FALSE, kind |-> "", data |-> <<>>]
    IN  IF depth > maxDepth \/ offset \notin DOMAIN pack THEN refused
        ELSE IF o.kind # "ofs" THEN [ok |-> TRUE, kind |-> o.kind, data |-> o.data]
        ELSE IF o.back > offset THEN refused
        ELSE IF ~base.ok \/ ~applied.ok THEN refused
        ELSE [ok |-> TRUE, kind |-> base.kind, data |-> applied.out]

(***************************************************************************)
(* Ignore rules.  A path is the sequence of its components and whether a   *)
(* slash ends it; a pattern is [neg, lead, dir, segs]: a leading "!", a    *)
(* leading slash, a trailing slash, and segments that are "**", "*" or a   *)
(* name.  A pattern ends in "**" or in a slash, not in both.               *)
(***************************************************************************)
\* translateIgnorePattern: a pattern with no inner slash floats to any depth.
Floats(p) == ~p.lead /\ Len(p.segs) = 1

reMatch(p, parts, isDir) ==
    LET segs == IF Floats(p) THEN <<"**">> \o p.segs ELSE p.segs
        n == Len(segs)
        m == Len(parts)
        from[i \in 1..(n + 1), j \in 1..(m + 1)] ==
            IF i > n THEN j > m
            ELSE IF segs[i] = "**"
            THEN IF i = n THEN i = 1 \/ j <= m \/ isDir \/ (i = 2 /\ segs[1] = "**")
                 ELSE \E k \in j..(m + 1) : from[i + 1, k]
            ELSE j <= m /\ segs[i] \in {"*", parts[j]} /\ from[i + 1, j + 1]
    IN  (p.dir => isDir) /\ from[1, 1]

\* match: a directory that is ignored ignores the files right under it; a
\* directory taken back takes back only itself.
match(p, parts, isDir) ==
    \/ (p.dir /\ p.neg => isDir) /\ reMatch(p, parts, isDir)
    \/ p.dir /\ ~p.neg /\ ~isDir /\ Len(parts) > 1 /\ reMatch(p, Front(parts), TRUE)

\* findMatching of the manager: at every depth the nearest .gitignore first,
\* then the outer ones, then the global files; ignores maps a directory to
\* the patterns of its .gitignore.
findMatching(ignores, globals, path) ==
    LET prefixes(i) == [k \in 1..i |-> SubSeq(path, 1, i - k)]
        dirFilter(i, d) == IF d \notin DOMAIN ignores THEN <<>>
                           ELSE SelectSeq(ignores[d], LAMBDA p :
                                    match(p, SubSeq(path, Len(d) + 1, i), i < Len(path)))
        at(i) == FlattenSeq([k \in 1..i |-> dirFilter(i, prefixes(i)[k])])
                 \o SelectSeq(globals, LAMBDA p : match(p, SubSeq(path, 1, i), i < Len(path)))
    IN  FlattenSeq([i \in 1..(Len(path) + 1) |-> at(i - 1)])

patternExcludesParent(p, path, final) ==
    LET doubled == ~p.lead /\ Len(p.segs) > 2 /\ p.segs[1] = "**" /\ Last(p.segs) = "**"
        middle  == SubSeq(p.segs, 2, Len(p.segs) - 1)
        base    == Front(p.segs)
        spares  == /\ Len(path) = Len(base) + 1
                   /\ \/ ~final.lead /\ ~final.dir /\ final.segs = path
                      \/ /\ \E k \in DOMAIN final.segs : final.segs[k] = "*"
                         /\ \A k \in DOMAIN final.segs : final.segs[k] # "**"
        deep    == /\ \E k \in DOMAIN final.segs : final.segs[k] = "**"
                   /\ match([final EXCEPT !.neg = FALSE], path, FALSE)
    IN  IF doubled
        THEN \E k \in 0..(Len(path) - Len(middle) - 1) : SubSeq(path, k + 1, k + Len(middle)) = middle
        ELSE IF Last(p.segs) = "**" /\ Len(p.segs) > 1
        THEN ~p.lead /\ Len(base) < Len(path) /\ IsPrefix(base, path) /\ ~spares /\ ~deep
        ELSE p.dir /\ \E i \in 1..(Len(path) - 1) : match(p, SubSeq(path, 1, i), TRUE)

parentExclusionNever(path, matches) == FALSE

\* parentExclusionApplies: what is taken back may still lie in an ignored parent.
parentExclusionApplies(path, matches) ==
    LET negs == {k \in DOMAIN matches : matches[k].neg}
    IN  negs # {} /\ \E k \in DOMAIN matches :
            ~matches[k].neg /\ patternExcludesParent(matches[k], path, matches[Greatest(negs)])

\* isIgnored of a file: the last match decides.
IgnoredBy(path, ms) == ms # <<>> /\ (~Last(ms).neg \/ parentExclusionApplies(path, ms))
isIgnored(ignores, globals, path) == IgnoredBy(path, findMatching(ignores, globals, path))

\* buildGitignore: everything at the root, but the directories of the tracked
\* files and the files themselves.
buildGitignore(tracked) ==
    LET dirs == {Front(f) : f \in {g \in Range(tracked) : Len(g) > 1}}
        pat(neg, lead, dir, segs) == [neg |-> neg, lead |-> lead, dir |-> dir, segs |-> segs]
    IN  <<pat(FALSE, TRUE, FALSE, <<"*">>)>>
        \o SetToSeq({pat(TRUE, FALSE, TRUE, d) : d \in dirs})
        \o [k \in DOMAIN tracked |-> pat(TRUE, FALSE, FALSE, tracked[k])]
        \o <<pat(TRUE, FALSE, FALSE, <<".gitignore">>)>>

(***************************************************************************)
(* Properties of the functions, over the inputs a run enumerates.          *)
(***************************************************************************)
\* The lines that apply the hunks to a: [ok, out], ok when the ranges and the
\* context lines are those of a.
Patched(a, hunks) ==
    LET line(ls) == [x \in DOMAIN ls |-> ls[x].line]
        old(h) == line(SelectSeq(h.body, LAMBDA l : l.sign # "+"))
        new(h) == line(SelectSeq(h.body, LAMBDA l : l.sign # "-"))
        start(r) == IF r.length = 0 THEN r.at ELSE r.at - 1
        step(s, h) == [ok  |-> /\ s.ok /\ s.pos <= start(h.old)
                               /\ Slice(a, start(h.old), start(h.old) + h.old.length) = old(h)
                               /\ Len(new(h)) = h.new.length
                               /\ Len(s.out) + start(h.old) - s.pos = start(h.new),
                       out |-> s.out \o Slice(a, s.pos, start(h.old)) \o new(h),
                       pos |-> start(h.old) + h.old.length]
        end == FoldLeft(step, [ok |-> TRUE, out |-> <<>>, pos |-> 0], hunks)
    IN  [ok |-> end.ok, out |-> end.out \o Slice(a, end.pos, Len(a))]

\* Applying a unified diff of either differ to the old lines gives the new ones,
\* with hunk ranges that say where and how long; equal texts give none.
DiffApplies(a, b, n) ==
    \A hunks \in {unifiedDiff(a, b, n), FileDiffHunks(a, b, n)} :
        /\ Patched(a, hunks) = [ok |-> TRUE, out |-> b]
        /\ a = b => hunks = <<>>

\* The length of a longest common subsequence, by its definition.
LCS(a, b) ==
    LET l[i \in 0..Len(a), j \in 0..Len(b)] ==
            IF i = 0 \/ j = 0 THEN 0
            ELSE IF a[i] = b[j] THEN l[i - 1, j - 1] + 1 ELSE Higher(l[i - 1, j], l[i, j - 1])
    IN  l[Len(a), Len(b)]

\* The counts shown with an edit are the least possible, whatever the words of
\* the bit vectors carry over.
CountsMinimal(a, b) ==
    LET d == LineDiffStats(a, b)
    IN  d.deleted = Len(a) - LCS(a, b) /\ d.added = Len(b) - LCS(a, b)

\* The files of a tree with their paths.
RECURSIVE Flattened(_, _)
Flattened(tree, prefix) ==
    UNION {IF e.kind = "tree" THEN Flattened(e.body, Append(prefix, e.name))
           ELSE {[path |-> Append(prefix, e.name), kind |-> e.kind, body |-> e.body]} : e \in tree}

\* Taking the old sides of the changes away and adding the new ones leads from
\* one tree to the other, however the two lists were paired.
ChangesComplete(t1, t2) ==
    LET side(S, c) == {[path |-> c.path, kind |-> e.kind, body |-> e.body] : e \in S}
        olds == UNION {side(c.old, c) : c \in treeChanges(t1, t2)}
        news == UNION {side(c.new, c) : c \in treeChanges(t1, t2)}
    IN  /\ (Flattened(t1, <<>>) \ olds) \cup news = Flattened(t2, <<>>)
        /\ olds \subseteq Flattened(t1, <<>>)

\* A delta rebuilds what it was made for and is refused on another base.
DeltaRebuilds(base, other, copies) ==
    LET body  == FlattenSeq([k \in DOMAIN copies |->
                     IF copies[k].insert # <<>> THEN <<Len(copies[k].insert)>> \o copies[k].insert
                     ELSE <<128 + 1 + 16, copies[k].off, copies[k].size>>])
        want  == FlattenSeq([k \in DOMAIN copies |->
                     IF copies[k].insert # <<>> THEN copies[k].insert
                     ELSE Slice(base, copies[k].off, copies[k].off + copies[k].size)])
        delta == <<Len(base), Len(want)>> \o body
        pack  == (0 :> [kind |-> "blob", back |-> 0, data |-> base])
                 @@ (5 :> [kind |-> "ofs", back |-> 5, data |-> delta])
                 @@ (9 :> [kind |-> "ofs", back |-> 0, data |-> delta])
    IN  /\ applyDelta(base, delta) = [ok |-> TRUE, out |-> want]
        /\ readObjectFrom(pack, 5, 0, 4) = [ok |-> TRUE, kind |-> "blob", data |-> want]
        /\ ~readObjectFrom(pack, 9, 0, 4).ok
        /\ Len(other) # Len(base) => ~applyDelta(other, delta).ok

\* With the generated .gitignore every tracked file is staged, whatever a
\* .gitignore in its own directory says; other files of the root are ignored;
\* and a file under a directory that a rule ignores stays ignored even when a
\* later rule takes the file back.
TrackedStaged(tracked, nested) ==
    LET root == (<<>> :> buildGitignore(tracked))
    IN  \A f \in Range(tracked) :
            /\ ~isIgnored(root, <<>>, f)
            /\ Len(f) = 2 => ~isIgnored(root @@ (Front(f) :> nested), <<>>, f)
            /\ isIgnored(root, <<>>, <<"other">>)
            /\ Len(f) > 1 => isIgnored(<<>> :> <<[neg |-> FALSE, lead |-> FALSE, dir |-> TRUE, segs |-> <<f[1]>>],
                                                 [neg |-> TRUE, lead |-> FALSE, dir |-> FALSE, segs |-> f]>>,
                                       <<>>, f)
===============================================================================
