------------------------------ MODULE StringData ------------------------------
(***************************************************************************)
(* StringData (runtime/base/string_data.cpp): a request-local string in  *)
(* each thread, its buffer mode, and what its m_hash caches, composed    *)
(* with the static string table of Intern, through which a thread        *)
(* interns its string (GetStaticString on a const StringData pointer).               *)
(*                                                                         *)
(* A string is literal (m_data points to immutable memory), malloced, or *)
(* shared (m_data is a SharedVariant's bytes, and m_shared, in the union *)
(* with m_hash, holds a reference to it).  m_hash caches the string's   *)
(* hash and, in its sign bit, that the string is not numeric even with   *)
(* errors allowed; every mutation must clear it.  The SharedVariant is   *)
(* one APC entry with the contents SvContent, whose store reference the  *)
(* store may drop.  Bytes are a small alphabet; lengths are bounded by  *)
(* MaxLen, which stands for 2^30 - 1 (MaxSize).                           *)
(***************************************************************************)
EXTENDS Intern, SequencesExt

CONSTANTS
    Chars,          \* the bytes strings are made of, " " among them
    Digits,         \* the decimal digits among Chars
    MaxLen,         \* MaxSize: an append past it throws
    OffsetLimit,    \* RuntimeOption::StringOffsetLimit, below MaxLen
    SvContent,      \* the SharedVariant's string
    MaxSvRefs       \* bound on the SharedVariant's count

Contents == BoundedSeq(Chars, MaxLen)
KindOfNull == "null"
KindOfInt64 == "int"

VARIABLES
    obj,            \* per thread: [kind, str, hc (<<h>> once hashed), nn (sign bit)]
    sv,             \* the SharedVariant: [refs, freed]
    svHeld,         \* the APC store still holds its reference
    lastNum,        \* history: <<[str, allow, res]>> of the last isNumericWithVal
    lastIsNum       \* history: <<[str, res]>> of the last isNumeric

strVars == <<table, nextPtr, freed, pc, returned, obj, sv, svHeld, lastNum, lastIsNum>>

NoObj == [kind |-> "none", str |-> <<>>, hc |-> <<>>, nn |-> FALSE]

(* is_numeric_string, which is not in this repository: leading blanks   *)
(* are skipped; digits to the end make a number; digits followed by     *)
(* other bytes make a number only when errors are allowed.              *)
NumClass(c) ==
    LET i == SelectInSeq(c, LAMBDA x : x # " ")
        r == IF i = 0 THEN <<>> ELSE SubSeq(c, i, Len(c))
    IN CASE r = <<>> \/ Head(r) \notin Digits -> "none"
         [] \A k \in 1..Len(r) : r[k] \in Digits -> "numeric"
         [] OTHER -> "leading"

IsNumericString(c, allow) ==
    IF NumClass(c) = "numeric" \/ (allow /\ NumClass(c) = "leading") THEN KindOfInt64 ELSE KindOfNull

Immutable(o) == o.kind \in {"literal", "shared"}

(* SharedVariant::decRef: the last reference frees it.                   *)
SvDecRef(s) == [refs |-> s.refs - 1, freed |-> s.refs = 1]

(* releaseData: a shared string drops its SharedVariant reference, a     *)
(* malloced one frees its buffer, a literal does nothing.                *)
ReleasedSv(o) == IF o.kind = "shared" THEN SvDecRef(sv) ELSE sv

(* A mutable buffer holding c, with m_hash cleared: what attach,        *)
(* realloc and string_concat leave.                                       *)
Malloced(c) == [kind |-> "malloc", str |-> c, hc |-> <<>>, nn |-> FALSE]

(* initLiteral / initCopy / initAttach: an empty string is the literal  *)
(* "", a non-empty copy or attached buffer is malloced; m_hash is 0.     *)
Fresh(k, c) == IF c = <<>> THEN [NoObj EXCEPT !.kind = "literal"]
               ELSE [NoObj EXCEPT !.kind = k, !.str = c]

(* escalate: an immutable string gets its own malloced copy.  Nothing   *)
(* here drops a shared string's SharedVariant reference.                 *)
Escalated(o) == IF Immutable(o) THEN Malloced(o.str) ELSE o

StrInit ==
    /\ Init
    /\ obj = [t \in Threads |-> NoObj]
    /\ sv = [refs |-> 1, freed |-> FALSE]
    /\ svHeld = TRUE
    /\ lastNum = <<>>
    /\ lastIsNum = <<>>

(* The histories keep a query's answer for the state right after it.    *)
Quiet == lastNum' = <<>> /\ lastIsNum' = <<>>

LocalStep(t) == pc[t] = Idle /\ UNCHANGED <<table, nextPtr, freed, pc, returned>>

-----------------------------------------------------------------------------
(* A new string: initLiteral, initCopy or initAttach of c.               *)
NewString(t, k, c) ==
    /\ LocalStep(t)
    /\ obj[t].kind = "none"
    /\ obj' = [obj EXCEPT ![t] = Fresh(k, c)]
    /\ UNCHANGED <<sv, svHeld>> /\ Quiet

(* A StringData constructed on the SharedVariant, by an APC fetch while *)
(* the store holds the entry.                                             *)
NewShared(t) ==
    /\ LocalStep(t)
    /\ obj[t].kind = "none" /\ svHeld /\ sv.refs < MaxSvRefs
    /\ obj' = [obj EXCEPT ![t] = [NoObj EXCEPT !.kind = "shared", !.str = SvContent]]
    /\ sv' = [sv EXCEPT !.refs = @ + 1]
    /\ UNCHANGED svHeld /\ Quiet

(* The last reference to the string goes: releaseData.                   *)
Release(t) ==
    /\ LocalStep(t)
    /\ obj[t].kind # "none"
    /\ sv' = ReleasedSv(obj[t])
    /\ obj' = [obj EXCEPT ![t] = NoObj]
    /\ UNCHANGED svHeld /\ Quiet

(* The APC store deletes the entry and drops its reference.              *)
ApcDelete ==
    /\ svHeld
    /\ svHeld' = FALSE
    /\ sv' = SvDecRef(sv)
    /\ UNCHANGED <<table, nextPtr, freed, pc, returned, obj>> /\ Quiet

-----------------------------------------------------------------------------
(* Mutant: the concatenation of a shared string keeps the IsShared bit.  *)
AppendedKeepShared(o, s) == [Malloced(o.str \o s) EXCEPT !.kind = o.kind]
(* append, any of its three paths: the result is malloced with m_hash   *)
(* cleared; a shared string drops its SharedVariant reference.           *)
Appended(o, s) == Malloced(o.str \o s)

(* append(s): nothing for an empty s; past MaxSize the buffer is        *)
(* released and FatalErrorException ends the request, which sweeps the   *)
(* string.                                                                *)
StrAppend(t, s) ==
    LET o == obj[t]
        sv1 == IF o.kind = "shared" THEN SvDecRef(sv) ELSE sv
    IN /\ LocalStep(t)
       /\ o.kind # "none" /\ s # <<>>
       /\ IF Len(o.str) + Len(s) <= MaxLen
          THEN obj' = [obj EXCEPT ![t] = Appended(o, s)] /\ sv' = sv1
          ELSE obj' = [obj EXCEPT ![t] = NoObj] /\ sv' = sv1
       /\ UNCHANGED svHeld /\ Quiet

(* Mutant: setChar(offset, ch) writes the byte and keeps m_hash.         *)
CharSetKeepHash(o, i, ch) == [Escalated(o) EXCEPT !.str = ReplaceAt(o.str, i + 1, ch)]
(* setChar(offset, ch): escalate an immutable string, write the byte,   *)
(* clear m_hash.                                                          *)
CharSet(o, i, ch) == Malloced(ReplaceAt(o.str, i + 1, ch))

(* setChar(offset, substring): a negative offset does nothing; an empty  *)
(* string, or an offset past StringOffsetLimit, throws                   *)
(* OffsetOutOfRangeException; an offset past the end pads with blanks    *)
(* and attaches the new buffer, releasing the old data.                  *)
SetChar(t, i, ch) ==
    LET o == obj[t] IN
    /\ LocalStep(t)
    /\ o.kind # "none" /\ Len(o.str) > 0 /\ i <= OffsetLimit
    /\ IF i < Len(o.str)
       THEN obj' = [obj EXCEPT ![t] = CharSet(o, i, ch)] /\ sv' = sv
       ELSE LET pad == [k \in 1..(i + 1) |-> IF k <= Len(o.str) THEN o.str[k] ELSE " "]
            IN /\ obj' = [obj EXCEPT ![t] = Malloced(ReplaceAt(pad, i + 1, ch))]
               /\ sv' = ReleasedSv(o)
    /\ UNCHANGED svHeld /\ Quiet

(* inc: escalate, then increment_string (not in this repository), which *)
(* gives c2; a longer result is a new buffer that attach takes, releasing *)
(* the escalated copy.                                                    *)
Inc(t, c2) ==
    LET o == obj[t] IN
    /\ LocalStep(t)
    /\ o.kind # "none" /\ o.str # <<>>
    /\ Len(c2) \in {Len(o.str), Len(o.str) + 1} /\ c2 # o.str
    /\ obj' = [obj EXCEPT ![t] = Malloced(c2)]
    /\ UNCHANGED <<sv, svHeld>> /\ Quiet

-----------------------------------------------------------------------------
(* hashHelper: m_hash |= hash_string(m_data); a shared string's hash    *)
(* comes from its SharedVariant and m_hash is not touched.               *)
HashHelper(t) ==
    /\ LocalStep(t)
    /\ obj[t].kind \in {"literal", "malloc"}
    /\ obj' = [obj EXCEPT ![t].hc = <<obj[t].str>>]
    /\ UNCHANGED <<sv, svHeld>> /\ Quiet

(* Mutant: the not-numeric bit is cached also for a strict test.         *)
NumBitAlways(o, allow, res) == res = KindOfNull /\ o.kind # "shared" /\ o.str # <<>>
(* isNumericWithVal caches a failed lenient test in m_hash's sign bit.   *)
NumBit(o, allow, res) == res = KindOfNull /\ o.kind # "shared" /\ allow /\ o.str # <<>>

NumWithVal(o, allow) ==
    IF o.nn \/ o.str = <<>> THEN KindOfNull ELSE IsNumericString(o.str, allow)

(* isNumericWithVal(allow_errors), and isNumeric, which is it with      *)
(* errors not allowed, for a string that is not static.                  *)
IsNumericWithVal(t, allow) ==
    LET o == obj[t]
        res == NumWithVal(o, allow)
    IN /\ LocalStep(t)
       /\ o.kind # "none"
       /\ obj' = [obj EXCEPT ![t].nn = o.nn \/ NumBit(o, allow, res)]
       /\ lastNum' = <<[str |-> o.str, allow |-> allow, res |-> res]>>
       /\ lastIsNum' = IF allow THEN <<>>
                       ELSE <<[str |-> o.str, res |-> res = KindOfInt64]>>
       /\ UNCHANGED <<sv, svHeld>>

(* setStatic's preCompute: the static copy's sign bit is the lenient    *)
(* test's failure.                                                        *)
StaticNN(c) == IsNumericString(c, TRUE) = KindOfNull

(* isNumeric on a static string: m_hash >= 0.                            *)
IsNumericStatic(t, s) ==
    /\ LocalStep(t)
    /\ table[s] # None
    /\ lastIsNum' = <<[str |-> s, res |-> ~StaticNN(s)]>>
    /\ lastNum' = <<>>
    /\ UNCHANGED <<obj, sv, svHeld>>

(* GetStaticString(const StringData *s) on the thread's string: the find  *)
(* and insert of Intern on its contents.                                  *)
InternLocal(t) ==
    /\ obj[t].kind # "none" /\ obj[t].str \in Strs
    /\ Find(t, obj[t].str)
    /\ UNCHANGED <<obj, sv, svHeld>> /\ Quiet

StrNext ==
    \/ \E t \in Threads :
        \/ \E k \in {"literal", "malloc"}, c \in BoundedSeq(Chars, 1) : NewString(t, k, c)
        \/ NewShared(t) \/ Release(t) \/ HashHelper(t)
        \/ \E s \in Contents : StrAppend(t, s)
        \/ \E i \in 0..OffsetLimit, ch \in Chars : SetChar(t, i, ch)
        \/ \E c2 \in Contents : Inc(t, c2)
        \/ \E allow \in BOOLEAN : IsNumericWithVal(t, allow)
        \/ \E s \in Strs : IsNumericStatic(t, s)
        \/ InternLocal(t)
        \/ Insert(t) /\ UNCHANGED <<obj, sv, svHeld>> /\ Quiet
    \/ ApcDelete

StrSpec == StrInit /\ [][StrNext]_strVars
-----------------------------------------------------------------------------
StringTypeOK ==
    /\ TypeOK
    /\ obj \in [Threads -> [kind : {"none", "literal", "malloc", "shared"}, str : Contents,
                            hc : BoundedSeq(Contents, 1), nn : BOOLEAN]]
    /\ sv \in [refs : 0..MaxSvRefs, freed : BOOLEAN]

(* m_hash is never stale: a hash cached in a literal or malloced string  *)
(* is the hash of its present bytes, and a cached not-numeric bit is     *)
(* right for them, after any sequence of appends, setChars, incs and     *)
(* attaches, each of which must clear it.                                 *)
HashCacheSound ==
    \A t \in Threads : obj[t].kind \in {"literal", "malloc"} =>
        /\ obj[t].hc # <<>> => obj[t].hc[1] = obj[t].str
        /\ obj[t].nn => IsNumericString(obj[t].str, TRUE) = KindOfNull

(* isNumericWithVal answers for the string's present bytes with the     *)
(* allow_errors it is given, although a failed lenient test is cached    *)
(* and then consulted by strict tests and by later tests of a mutated    *)
(* string.                                                                *)
NumericWithValAgrees ==
    lastNum # <<>> =>
        lastNum[1].res = IF lastNum[1].str = <<>> THEN KindOfNull
                         ELSE IsNumericString(lastNum[1].str, lastNum[1].allow)

(* A SharedVariant is never freed while a string still reads its bytes: *)
(* its count is at least the store's reference plus one per shared       *)
(* string, whichever of append, setChar, inc, attach and release ran.     *)
SharedSafe ==
    LET users == {t \in Threads : obj[t].kind = "shared"}
    IN /\ users # {} => ~sv.freed
       /\ sv.refs >= (IF svHeld THEN 1 ELSE 0) + Cardinality(users)

(* The SharedVariant's count is exactly the store's reference plus one  *)
(* per shared string: a string that stops being shared drops its        *)
(* reference, so the entry is freed once the store and the strings have *)
(* let it go.                                                             *)
SharedRefsExact ==
    sv.refs = (IF svHeld THEN 1 ELSE 0) + Cardinality({t \in Threads : obj[t].kind = "shared"})

(* isNumeric answers the strict test for the string's bytes, static or  *)
(* not: is_numeric gives one answer for one string.                      *)
IsNumericAgrees ==
    lastIsNum # <<>> => lastIsNum[1].res = (IsNumericString(lastIsNum[1].str, FALSE) = KindOfInt64)
=============================================================================
