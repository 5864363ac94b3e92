----------------------------- MODULE MethodCache -----------------------------
(***************************************************************************)
(* The per-call-site method cache of translated code                      *)
(* (TargetCache::MethodCache::lookup, targetcache.cpp) and the shortcut   *)
(* it takes on a miss, Class::wouldCall (class.cpp).                       *)
(*                                                                         *)
(* A set of call sites `$obj->name()', each in a method of its context   *)
(* class ctx (0 for code outside any class) and each with its own cache,  *)
(* is executed by one request on objects of any linked class.  A cache is *)
(* direct-mapped by Class*; the line the calls use is modelled, and every *)
(* class is taken to hash to it, the case in which one class's entry is   *)
(* looked at for another.  The target cache is zeroed at each request     *)
(* start, and a call that finds no method fatals and ends the request.    *)
(***************************************************************************)
EXTENDS ClassLink

CONSTANTS
    Linked,         \* the linked classes, ids 1..Len(Linked)
    Sites,          \* the call sites, [ctx (a class id, 0 for none), name]
    MagicName       \* "__call"

ClassIds == DOMAIN Linked

VARIABLES
    classes,        \* the request's linked classes (Linked), never changed here
    pair,           \* per site, the cache line: [key (a class id, 0 for NULL), func, magic]
    last            \* history: per site, the last call, [cls, func, magic], or NoCall

vars == <<classes, pair, last>>

NoFunc == [name |-> "", cls |-> 0]
EmptyPair == [key |-> 0, func |-> NoFunc, magic |-> FALSE]
NoCall == [cls |-> 0, func |-> NoFunc, magic |-> FALSE]

Methods(c) == classes[c].methods

(* Class::lookupMethod: the entry named n in c's method table.            *)
LookupMethod(c, n) ==
    LET i == IndexOf(Methods(c), n) IN IF i = 0 THEN NoFunc ELSE Methods(c)[i]

(* Func::methodSlot: the slot setMethods gave the Func in its own class.  *)
MethodSlot(f) == IndexOf(Methods(f.cls), f.name)

IsClassof(c, d) == d # 0 /\ Classof(classes, c, d)

-----------------------------------------------------------------------------
(* VMExecutionContext::lookupMethodCtx for an ObjMethod call, which is not *)
(* in this repository: the method named n in c's table; a private or      *)
(* protected one is checked against the context class through its base   *)
(* class; and a private method ctx itself declares is called instead when *)
(* c derives from ctx and the method found has a private ancestor (the    *)
(* method-table flag of spec line 31).  NoFunc when none is accessible.   *)
CtxPrivate(c, n, ctx) ==
    LET m == LookupMethod(c, n)
        cm == IF ctx = 0 THEN NoFunc ELSE LookupMethod(ctx, n)
    IN IF /\ m # NoFunc /\ m.privAnc /\ IsClassof(c, ctx)
          /\ cm # NoFunc /\ cm.cls = ctx /\ "Private" \in cm.attrs
       THEN cm ELSE NoFunc

LookupMethodCtx(c, n, ctx) ==
    LET m == LookupMethod(c, n)
        priv == CtxPrivate(c, n, ctx)
        accessible ==
            \/ m.attrs \cap {"Private", "Protected"} = {}
            \/ /\ "Protected" \in m.attrs /\ ctx # 0
               /\ IsClassof(ctx, m.base) \/ IsClassof(m.base, ctx)
    IN CASE m = NoFunc -> NoFunc
         [] m.attrs \cap {"Private", "Protected"} # {} /\ ctx = m.base -> m
         [] "Protected" \in m.attrs /\ ctx # 0 /\ IsClassof(ctx, m.base) -> m
         [] priv # NoFunc -> priv
         [] accessible -> m
         [] OTHER -> NoFunc

-----------------------------------------------------------------------------
(* Mutant: wouldCall returns any same-named method at the slot, without  *)
(* the public-or-same-base condition.                                     *)
WouldCallNameOnly(c, prev) ==
    LET s == MethodSlot(prev)
        cand == IF Len(Methods(c)) < s THEN NoFunc ELSE Methods(c)[s]
    IN CASE cand = NoFunc -> NoFunc
         [] cand = prev -> cand
         [] "Private" \in prev.attrs /\ IsClassof(c, prev.cls) -> prev
         [] cand.name = prev.name -> cand
         [] OTHER -> NoFunc

(* Class::wouldCall: the method c would call where prev was called, found *)
(* at prev's slot of c's table without a permission check, or NoFunc.     *)
WouldCall(c, prev) ==
    LET s == MethodSlot(prev)
        cand == IF Len(Methods(c)) < s THEN NoFunc ELSE Methods(c)[s]
    IN CASE cand = NoFunc -> NoFunc
         [] cand = prev -> cand
         [] "Private" \in prev.attrs /\ IsClassof(c, prev.cls) -> prev
         [] cand.name = prev.name /\ ("Public" \in cand.attrs \/ cand.base = prev.base) -> cand
         [] OTHER -> NoFunc

(* Mutant: the shortcut is taken after a __call entry too (no           *)
(* isMagicCall reset of func).                                            *)
ResolveKeepMagic(st, c) ==
    LET p == pair[st]
        wc == IF p.key # 0 THEN WouldCall(c, p.func) ELSE NoFunc
        direct == LookupMethodCtx(c, st.name, st.ctx)
    IN CASE wc # NoFunc -> [func |-> wc, magic |-> FALSE]
         [] direct # NoFunc -> [func |-> direct, magic |-> FALSE]
         [] OTHER -> [func |-> LookupMethodCtx(c, MagicName, st.ctx), magic |-> TRUE]

(* The miss path at site st: wouldCall on the line's previous entry,     *)
(* unless that was a __call; then lookupMethodCtx for the name, then for *)
(* __call.                                                                *)
Resolve(st, c) ==
    LET p == pair[st]
        wc == IF p.key # 0 THEN WouldCall(c, p.func) ELSE NoFunc
        shortcut == IF p.magic THEN NoFunc ELSE wc
        direct == LookupMethodCtx(c, st.name, st.ctx)
    IN CASE shortcut # NoFunc -> [func |-> shortcut, magic |-> FALSE]
         [] direct # NoFunc -> [func |-> direct, magic |-> FALSE]
         [] OTHER -> [func |-> LookupMethodCtx(c, MagicName, st.ctx), magic |-> TRUE]

-----------------------------------------------------------------------------
Init ==
    /\ classes = Linked
    /\ pair = [st \in Sites |-> EmptyPair]
    /\ last = [st \in Sites |-> NoCall]

(* A new request: requestInit zeroes the target cache.                    *)
NewRequest ==
    /\ pair' = [st \in Sites |-> EmptyPair]
    /\ last' = [st \in Sites |-> NoCall]
    /\ UNCHANGED classes

(* MethodCache::lookup at site st on an object of class c: a hit returns  *)
(* the line's entry; a miss resolves the method and fills the line.       *)
CallHit(st, c) ==
    /\ pair[st].key = c
    /\ last' = [last EXCEPT ![st] = [cls |-> c, func |-> pair[st].func, magic |-> pair[st].magic]]
    /\ UNCHANGED <<classes, pair>>

CallMiss(st, c) ==
    LET r == Resolve(st, c) IN
    /\ pair[st].key # c
    /\ r.func # NoFunc
    /\ pair' = [pair EXCEPT ![st] = [key |-> c, func |-> r.func, magic |-> r.magic]]
    /\ last' = [last EXCEPT ![st] = [cls |-> c, func |-> r.func, magic |-> r.magic]]
    /\ UNCHANGED classes

(* Neither the method nor __call is accessible: lookupObjMethod raises a  *)
(* fatal error and the request ends.                                      *)
CallFatal(st, c) ==
    /\ pair[st].key # c
    /\ Resolve(st, c).func = NoFunc
    /\ NewRequest

Next ==
    \/ \E st \in Sites, c \in ClassIds : CallHit(st, c) \/ CallMiss(st, c) \/ CallFatal(st, c)
    \/ NewRequest

Spec == Init /\ [][Next]_vars

-----------------------------------------------------------------------------
Func == {NoFunc} \cup UNION {ToSet(Methods(c)) : c \in ClassIds}

TypeOK ==
    /\ classes = Linked
    /\ pair \in [Sites -> [key : {0} \cup ClassIds, func : Func, magic : BOOLEAN]]
    /\ last \in [Sites -> [cls : {0} \cup ClassIds, func : Func, magic : BOOLEAN]]

(* The cache is transparent: every call through a site calls the Func,   *)
(* with the __call flag, that lookupMethodCtx resolves for the object's  *)
(* class and the site's context, whatever classes the line held before.  *)
(* wouldCall is trusted to give that Func without a permission check.    *)
MethodCacheAgrees ==
    \A st \in Sites : last[st] # NoCall =>
        LET l == last[st]
            direct == LookupMethodCtx(l.cls, st.name, st.ctx)
        IN IF direct # NoFunc
           THEN l.func = direct /\ ~l.magic
           ELSE l.func = LookupMethodCtx(l.cls, MagicName, st.ctx) /\ l.magic
=============================================================================
