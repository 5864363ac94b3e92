----------------------------- MODULE ClassLookup -----------------------------
(***************************************************************************)
(* Run-time lookups on linked classes: the declared-property lookup of     *)
(* Class::getDeclPropIndex.                                                *)
(* `this' and `ctx' are Class ids of `cls', ctx 0 being the anonymous      *)
(* context.  The debugger's bypass of access checks is off.                *)
(***************************************************************************)
EXTENDS ClassLink

(* lookupDeclProp: the slot of the accessible declared property key.      *)
LookupDeclProp(cls, c, key) == PropIndex(cls[c].props, key)

(* The slot j of ctx's own table if it holds a private property ctx        *)
(* itself declares, else 0.                                                *)
CtxOwnPrivate(cls, ctx, j) ==
    IF j # 0 /\ cls[ctx].props[j].cls = ctx /\ "Private" \in cls[ctx].props[j].attrs
    THEN j ELSE 0

(* The tail of getDeclPropIndex: when ctx is this class or one of its      *)
(* ancestors and declares a private property key itself, that property's  *)
(* slot in ctx's table, accessible; otherwise the result found so far.    *)
CtxPrivateOr(cls, this, ctx, key, res) ==
    IF /\ ctx # 0
       /\ Classof(cls, this, ctx)
       /\ CtxOwnPrivate(cls, ctx, LookupDeclProp(cls, ctx, key)) # 0
    THEN [slot |-> LookupDeclProp(cls, ctx, key), accessible |-> TRUE]
    ELSE res

(* getDeclPropIndex once lookupDeclProp returned the slot i.              *)
DeclPropAt(cls, this, ctx, key, i) ==
    IF i = 0 THEN CtxPrivateOr(cls, this, ctx, key, [slot |-> 0, accessible |-> FALSE])
    ELSE LET p == cls[this].props[i]
         IN CASE p.attrs \cap {"Protected", "Private"} = {} ->
                   IF ctx = this THEN [slot |-> i, accessible |-> TRUE]
                   ELSE CtxPrivateOr(cls, this, ctx, key, [slot |-> i, accessible |-> TRUE])
              [] ctx = p.cls -> [slot |-> i, accessible |-> TRUE]
              [] ctx = 0 -> [slot |-> i, accessible |-> FALSE]
              [] "Private" \in p.attrs ->
                   CtxPrivateOr(cls, this, ctx, key, [slot |-> i, accessible |-> FALSE])
              [] Classof(cls, ctx, p.cls) -> [slot |-> i, accessible |-> TRUE]
              [] ~Classof(cls, p.cls, ctx) -> [slot |-> i, accessible |-> FALSE]
              [] OTHER -> CtxPrivateOr(cls, this, ctx, key, [slot |-> i, accessible |-> TRUE])

(* getDeclPropIndex(ctx, key, accessible): a slot (0 for kInvalidSlot)     *)
(* and whether ctx may access it.  The slot returned for ctx's private    *)
(* property is an index of ctx's table, used by callers on this class's.  *)
GetDeclPropIndex(cls, this, ctx, key) ==
    DeclPropAt(cls, this, ctx, key, LookupDeclProp(cls, this, key))
=============================================================================
