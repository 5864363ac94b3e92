------------------------------ MODULE NameCaches ------------------------------
(***************************************************************************)
(* The name-keyed lookups of the target cache (targetcache.cpp) in one    *)
(* request: ClassCache::lookup, lookupKnownClass<checkOnly> and           *)
(* FuncCache::lookup, with the stringMatches test of a cache line's key.  *)
(*                                                                         *)
(* Names are string objects: two objects may hold the same text, and two  *)
(* texts may have the same hash.  A class or function is found by its     *)
(* name case-insensitively (the NamedEntity of the text).  A ClassCache    *)
(* line holds a reference to its key string.  When a class is not         *)
(* defined, the autoloader runs user code, which may define classes and    *)
(* functions and look names up itself, through the same cache lines; the  *)
(* lookups waiting for it form the stack.  A lookup that ends undefined    *)
(* raises a fatal error, which ends the request; requestInit zeroes the    *)
(* cache for the next one and the request's strings are freed with it.    *)
(***************************************************************************)
EXTENDS Naturals, Sequences, FiniteSets

CONSTANTS
    Strs,           \* string objects used as names
    Text,           \* Text[s]: the characters of s
    HashOf,         \* HashOf[t]: hash_string of a text
    Ent,            \* Ent[t]: the NamedEntity a text names (case-folded)
    Decl,           \* Decl[e]: the class a definition of e gives, 0 if none
    Kind,           \* Kind[c]: "class", "interface" or "trait"
    FuncDecl,       \* the entities that have a function declaration
    FuncName,       \* FuncName[e]: the static name string of e's Func
    NLines,         \* lines of each cache
    MaxDepth        \* bound on nested autoloads

NoStr == "none"
Ents == DOMAIN Decl
ClsIds == {Decl[e] : e \in Ents} \ {0}
Lines == 0..(NLines - 1)
E(s) == Ent[Text[s]]

VARIABLES
    defined,        \* NamedEntity class slot per entity: a class id or 0
    fdefined,       \* entities whose function is defined
    cline,          \* ClassCache lines: [key (string or NoStr), val]
    fline,          \* FuncCache lines: [key (string or NoStr), val (entity)]
    refs,           \* reference count of each string
    stack,          \* lookups waiting for the autoloader, innermost last
    last            \* history: the last lookup's result

vars == <<defined, fdefined, cline, fline, refs, stack, last>>

EmptyLine == [key |-> NoStr, val |-> 0]
EmptyFLine == [key |-> NoStr, val |-> NoStr]

(* keyToPair: the line of a name, by its hash.                            *)
Line(s) == HashOf[Text[s]] % NLines

(* stringMatches: the same object, the same characters, or an equal hash  *)
(* and equal characters.                                                  *)
StringMatchesHashOnly(k, s) ==
    k # NoStr /\ (k = s \/ HashOf[Text[k]] = HashOf[Text[s]])
StringMatches(k, s) ==
    k # NoStr /\ (k = s \/ (HashOf[Text[k]] = HashOf[Text[s]] /\ Text[k] = Text[s]))

(* The failing flags lookupKnownClass<true> returns for a missing class:  *)
(* trait and interface bits where a class is wanted, none otherwise.      *)
KnownFlagsSwapped(isClass) == IF isClass THEN {} ELSE {"trait", "interface"}
KnownFlags(isClass) == IF isClass THEN {"trait", "interface"} ELSE {}
Attrs(c) == IF Kind[c] = "class" THEN {} ELSE {Kind[c]}

Init ==
    /\ defined = [e \in Ents |-> 0]
    /\ fdefined = {}
    /\ cline = [l \in Lines |-> EmptyLine]
    /\ fline = [l \in Lines |-> EmptyFLine]
    /\ refs = [s \in Strs |-> 1]
    /\ stack = <<>>
    /\ last = [op |-> "none"]

(* The ClassCache miss stores name in the line, dropping the reference to *)
(* the key the line holds now and taking one to name.                     *)
Fill(l, s, c) ==
    LET old == cline[l].key IN
    /\ refs' = IF old = NoStr THEN [refs EXCEPT ![s] = @ + 1]
               ELSE [refs EXCEPT ![old] = @ - 1, ![s] = @ + 1]
    /\ cline' = [cline EXCEPT ![l] = [key |-> s, val |-> c]]

(* A fatal error (undefinedError, raise_error) ends the request; the next *)
(* starts with the cache zeroed by requestInit and no class defined.      *)
Fatal ==
    /\ defined' = [e \in Ents |-> 0]
    /\ fdefined' = {}
    /\ cline' = [l \in Lines |-> EmptyLine]
    /\ fline' = [l \in Lines |-> EmptyFLine]
    /\ refs' = [s \in Strs |-> 1]
    /\ stack' = <<>>
    /\ last' = [op |-> "none"]

(* ClassCache::lookup: a hit returns the line's class; a miss looks the   *)
(* class up, or leaves it to the autoloader, and fills the line.          *)
ClassCacheLookup(s) ==
    LET l == Line(s) IN
    \/ /\ StringMatches(cline[l].key, s)
       /\ last' = [op |-> "class", str |-> s, val |-> cline[l].val]
       /\ UNCHANGED <<defined, fdefined, cline, fline, refs, stack>>
    \/ /\ ~StringMatches(cline[l].key, s)
       /\ defined[E(s)] # 0
       /\ Fill(l, s, defined[E(s)])
       /\ last' = [op |-> "class", str |-> s, val |-> defined[E(s)]]
       /\ UNCHANGED <<defined, fdefined, fline, stack>>
    \/ /\ ~StringMatches(cline[l].key, s)
       /\ defined[E(s)] = 0
       /\ Len(stack) < MaxDepth
       /\ stack' = Append(stack, [op |-> "class", str |-> s, seen |-> cline[l].key])
       /\ UNCHANGED <<defined, fdefined, cline, fline, refs, last>>

(* lookupKnownClass: the caller found the entity's slot empty; the        *)
(* autoloader runs for the name.                                          *)
LookupKnownClass(s, checkOnly, isClass) ==
    /\ defined[E(s)] = 0
    /\ Len(stack) < MaxDepth
    /\ stack' = Append(stack, [op |-> IF checkOnly THEN "check" ELSE "known",
                               str |-> s, isClass |-> isClass])
    /\ UNCHANGED <<defined, fdefined, cline, fline, refs, last>>

(* The autoloader's user code defines a class or a function (the          *)
(* request's own code may do so at any time too).                         *)
DefineClass(e) ==
    /\ defined[e] = 0 /\ Decl[e] # 0
    /\ defined' = [defined EXCEPT ![e] = Decl[e]]
    /\ UNCHANGED <<fdefined, cline, fline, refs, stack, last>>

DefineFunc(e) ==
    /\ e \in FuncDecl \ fdefined
    /\ fdefined' = fdefined \cup {e}
    /\ UNCHANGED <<defined, cline, fline, refs, stack, last>>

Pop == stack' = SubSeq(stack, 1, Len(stack) - 1)

(* Mutant: the line's key as read before the autoloader ran (pairSd).    *)
ClassCacheAutoloadedStale(f, c) ==
    LET l == Line(f.str) IN
    \/ c = 0 /\ Fatal
    \/ /\ c # 0
       /\ refs' = IF f.seen = NoStr THEN [refs EXCEPT ![f.str] = @ + 1]
                  ELSE [refs EXCEPT ![f.seen] = @ - 1, ![f.str] = @ + 1]
       /\ cline' = [cline EXCEPT ![l] = [key |-> f.str, val |-> c]]
       /\ Pop /\ last' = [op |-> "class", str |-> f.str, val |-> c]
       /\ UNCHANGED <<defined, fdefined, fline>>

(* Mutant: no undefinedError when the autoloader did not define it.      *)
ClassCacheAutoloadedNoFatal(f, c) ==
    /\ Fill(Line(f.str), f.str, c)
    /\ Pop /\ last' = [op |-> "class", str |-> f.str, val |-> c]
    /\ UNCHANGED <<defined, fdefined, fline>>

(* The autoloader returns to the innermost waiting lookup, which reads    *)
(* the entity's class again (loadMissingClass).  ClassCache::lookup       *)
(* raises undefinedError, or fills the line it found at entry, its key    *)
(* read now.                                                              *)
ClassCacheAutoloaded(f, c) ==
    \/ c = 0 /\ Fatal
    \/ /\ c # 0
       /\ Fill(Line(f.str), f.str, c)
       /\ Pop /\ last' = [op |-> "class", str |-> f.str, val |-> c]
       /\ UNCHANGED <<defined, fdefined, fline>>

(* lookupKnownClass reads the entity's slot again: checkOnly returns the  *)
(* class's attributes or the failing flags; otherwise undefinedError, or  *)
(* the class.                                                             *)
KnownClassAutoloaded(f, c) ==
    /\ \/ f.op = "check"
          /\ last' = [op |-> "check", str |-> f.str, isClass |-> f.isClass, cls |-> c,
                       val |-> IF c = 0 THEN KnownFlags(f.isClass) ELSE Attrs(c)]
          /\ Pop
       \/ f.op = "known" /\ c = 0 /\ Fatal
       \/ /\ f.op = "known" /\ c # 0
          /\ last' = [op |-> "known", str |-> f.str, val |-> c]
          /\ Pop
    /\ UNCHANGED <<defined, fdefined, cline, fline, refs>>

AutoloadReturn ==
    /\ stack # <<>>
    /\ LET f == stack[Len(stack)]
           c == defined[E(f.str)]
       IN IF f.op = "class" THEN ClassCacheAutoloaded(f, c)
          ELSE KnownClassAutoloaded(f, c)

(* FuncCache::lookup: a miss stores the Func's own static name as key.    *)
FuncCacheLookup(s) ==
    LET l == Line(s) IN
    \/ /\ StringMatches(fline[l].key, s)
       /\ last' = [op |-> "func", str |-> s, val |-> fline[l].val]
       /\ UNCHANGED <<defined, fdefined, cline, fline, refs, stack>>
    \/ /\ ~StringMatches(fline[l].key, s)
       /\ E(s) \in fdefined
       /\ fline' = [fline EXCEPT ![l] = [key |-> FuncName[E(s)], val |-> E(s)]]
       /\ last' = [op |-> "func", str |-> s, val |-> E(s)]
       /\ UNCHANGED <<defined, fdefined, cline, refs, stack>>
    \/ /\ ~StringMatches(fline[l].key, s)
       /\ E(s) \notin fdefined
       /\ Fatal

(* The request ends with no lookup waiting.                               *)
EndRequest == stack = <<>> /\ Fatal

Next ==
    \/ \E s \in Strs : ClassCacheLookup(s) \/ FuncCacheLookup(s)
    \/ \E s \in Strs, chk, isc \in BOOLEAN : LookupKnownClass(s, chk, isc)
    \/ \E e \in Ents : DefineClass(e) \/ DefineFunc(e)
    \/ AutoloadReturn
    \/ EndRequest

Spec == Init /\ [][Next]_vars

-----------------------------------------------------------------------------
Frames == [op : {"class"}, str : Strs, seen : Strs \cup {NoStr}]
          \cup [op : {"known", "check"}, str : Strs, isClass : BOOLEAN]

TypeOK ==
    /\ defined \in [Ents -> {0} \cup ClsIds]
    /\ fdefined \subseteq FuncDecl
    /\ cline \in [Lines -> {EmptyLine} \cup [key : Strs, val : ClsIds]]
    /\ fline \in [Lines -> {EmptyFLine} \cup [key : Strs, val : FuncDecl]]
    /\ refs \in [Strs -> Nat]
    /\ stack \in Seq(Frames) /\ Len(stack) <= MaxDepth

(* Every class and function a cached lookup returns is the one the        *)
(* request has defined under that name (case-insensitively), however the  *)
(* name's line was filled before: by another string object of the same    *)
(* text, by a name of equal hash, or by an autoloader nested inside the   *)
(* lookup.                                                                *)
LookupsAgree ==
    /\ last.op \in {"class", "known"} => last.val = defined[E(last.str)] /\ last.val # 0
    /\ last.op = "func" => last.val = E(last.str) /\ last.val \in fdefined

(* A string's reference count is its program reference plus one for each  *)
(* ClassCache line keyed by it: the miss drops the reference of the key   *)
(* the line holds when it fills it, even when the autoloader's own        *)
(* lookups have refilled the line meanwhile.                              *)
KeyRefsAgree ==
    \A s \in Strs : refs[s] = 1 + Cardinality({l \in Lines : cline[l].key = s})

(* lookupKnownClass<true>'s flags pass the translated code's attribute    *)
(* check (no trait or interface bit for a class, the interface bit for an *)
(* interface) exactly when the class the entity had on return is defined *)
(* and of that kind.                                                      *)
KnownCheckSound ==
    last.op = "check" =>
        LET c == last.cls
            passes == IF last.isClass THEN last.val \cap {"trait", "interface"} = {}
                      ELSE "interface" \in last.val
        IN passes <=> (c # 0 /\ Kind[c] = IF last.isClass THEN "class" ELSE "interface")
=============================================================================
