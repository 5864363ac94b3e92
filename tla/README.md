# TLA+ models of HHVM class linking, availability and reuse

This directory holds TLA+ specifications of the class materialization engine of
the VM (`src/runtime/vm/class.cpp`), with the parts of the target cache
(`src/runtime/vm/translator/targetcache.cpp`) and the static string table
(`src/runtime/base/string_data.cpp`) that it relies on. The TLC configurations
check the specifications. `PROJECT.json` records which definition models which
source lines, every run and its mutants, the findings, and the hazards.

## 1. The system

| Part | Source | State | Operations |
|---|---|---|---|
| Linking | `Class::Class`, `setParent`, `setUsedTraits`, `setMethods` (with `importTraitMethods`, `applyTraitPrecRule`, `applyTraitAliasRule`, `removeSpareTraitAbstractMethods`, `importTraitMethod`, `methodOverrideOK`), `setSpecial`, `setODAttributes`, `setInterfaces` / `checkInterfaceMethods`, `setConstants`, `setProperties` (+ trait props), `setInitializers`, `setClassVec` | the new `Class`: method table with trait range, declared/all interfaces, constants, property and static-property tables, initializer vectors, ancestry vector | one link = the phases in that order; the first failing phase makes `newClass` return NULL (or raise) |
| Definition and reuse | `Class::avail`, `getCached`/`setCached`; the caller `Unit::defClass` is not in this repository | `NamedEntity::clsList` (every Class ever linked for a name, newest first), the per-request target-cache slot of each name | define a class: reuse an available Class, fail, or link a new one; request start zeroes the slots (`TargetCache::requestInit`) |
| Type tests | `classof(PreClass)`, `classof(Class)` | ancestry vector, declared interfaces | pure lookups |
| Reclamation | `Class::atomicRelease`, Treadmill (not in this repository) | clsList, deferred-free queue | unlink under `Unit::s_classesMutex`, free after every request that could hold it ends |
| Per-request class data | `initialize`, `initProps`, `initSProps`, `getSProp`, `clsCnsGet`, `getDeclPropIndex` | per-request property/constant caches | lazy initialization on first use, running `86pinit`/`86sinit`/`86cinit` |
| Target cache | `allocBitImpl`, `namedAlloc`, `bitOffToHandleAndMask`, `invalidateForRename`, `requestInit`, `ClassCache`, `MethodCache`, `GlobalCache`, `BoxedGlobalCache`, `PropCache`/`PropNameCache`/`PropCtxCache`/`PropCtxNameCache` with `propLookupPrep`/`propSetPrep` | `s_frontier`, bit blocks, handle maps under a recursive `HandleMutex`, per-thread cache memory; the request's globals array | allocate a handle or bit, look a class, method or global up through a cached slot |
| Static strings | `StringData::GetStaticString` | lazily created concurrent hash map | intern a string |
| Strings | `StringData`'s `initLiteral`/`initAttach`/`initCopy`, the `SharedVariant` constructor, `releaseData`, `append`, `setChar`, `inc`, `hashHelper`, `preCompute`/`setStatic`, `isNumericWithVal`/`isNumeric` | per string: buffer kind (literal, malloc'ed, APC-shared), contents, the cached hash and the not-numeric sign bit in `m_hash`; the APC `SharedVariant`'s reference count | make, grow, mutate, hash, test and intern strings; the APC store deletes its value |

The parts interact as follows. Linking reads what the current request has
defined under each name (`Unit::loadClass`). Definition decides between reuse
and linking. Reuse is decided by `avail`, which compares the Class\*s a
candidate was linked against with what the request has defined now. The
per-request definitions live in target-cache slots that `requestInit` zeroes.
Superseded classes leave the clsList only through `atomicRelease`.

The behaviours that are hard to test are these:
- which linked Class a later request may reuse, and what that Class read at link time that `avail` does not recheck;
- rule order in trait composition;
- narrowing through several override steps;
- the ancestry vector;
- concurrent readers of a Class that is being unlinked;
- unsynchronized reads of the allocation frontier and the lazily created string table;
- a hash or a not-numeric bit cached in `m_hash` and a `SharedVariant` reference that mutations must drop.

## 2. Modules

The link is split into four modules, each extending the one before it:

| Module | Models | State / actions |
|---|---|---|
| `ClassBase` | the constants (PreClass records, names, attribute sets) and small helpers shared by the link | none |
| `ClassProps` | `setProperties` with the trait property import (`importTraitInstanceProp`, `importTraitStaticProp`, `compatibleTraitPropInit`, `getStaticPropInitVal`) and `setInitializers` | operators only |
| `ClassLink` | the rest of the link: every other set\* phase as an operator, composed by `NewClass` in `Class::Class`'s order, and both `classof`s | no variables: operators over a sequence `cls` of linked classes (id 0 is NULL) and a map `env` from name to defined Class id |
| `ClassLookup` | `getDeclPropIndex` (with `lookupDeclProp`) | operators only |
| `ClassDefine` | definition across requests | `classes` (every Class ever linked), `clsList`, `env[r]` per request, `crashed`; actions `DefineUndefinedParent`, `DefineReuse`, `DefineUnavailable`, `DefineNew` (the link succeeds, is fatal, or crashes the process), `EndRequest` |
| `TargetCache` | the target-cache allocator and the per-request slots in it: `allocBitImpl`, `allocBit`, `allocCnsBit`, `namedAlloc`, `allocStatic`, `bitOffToHandleAndMask`, `testBit`/`testAndSetBit`, `fillConstant`, `requestInit`, and `Class::setPropData`'s lazily allocated slot | `heap` (`s_frontier`, `s_next_bit`, `s_bits_to_go`, the handle maps, and a history of allocations and bits), `propCache` (each class's `m_propDataCache`), and per thread `base`, `inReq`, `dirty` (writes to its block not yet zeroed), `wrote` (writes of this request), `pc` |
| `ClassInit` | `Class::initialize`, `initProps`, `initSProps`, `getSProp`, `getPropData`/`setPropData`, `getSPropData`/`setSPropData`, and the `SPropCache::lookup` miss that calls `getSProp` | `propData`/`sPropData` per class (the request's slots), `arrays` (static arrays made, each name mapped to the storage cell it refers to), `nVecs`, `stack` (the request's call frames), `asserted` (history), and for constants `cnsData` per class, `cnsArrays`, `fooDefined` (the global an initializer reads) and `cnsSeen` (history of values read); one action per step of each function (`ClsCnsGet` includes `initClsCnsData`), and `UserCall`/`UserGet`/`UserCns`/`UserDefine`/`UserReturn` for initializer user code |
| `Reclaim` | `Class::atomicRelease`, the failure path of `Class::newClass`; from the spec, `Unit::defClass`'s clsList insert and lock-free walk and the Treadmill | `head`/`next` (clsList and `m_nextClass`), `mem` (unborn, live, freed), `cached` (`m_cachedOffset != -1`), `inReq`, `held` (the Class pointers a request has read), `cur` (a walk's node), `rel` (a release in progress), `items` (Treadmill items and the threads each waits for), `crashed` (history); actions `StartRequest`, `EndRequest`, `DefineNew`, `NewClassFailed`, `StartWalk`, `WalkStep`, `ReleaseBegin`, `ReleaseUnlink`, `ReleaseEnqueue` |
| `MethodCache` | `TargetCache::MethodCache::lookup` and `Class::wouldCall`; `lookupMethodCtx` from the spec | `classes` (the request's linked classes, never changed), `pair` (per call site, the cache line: key class, Func, magic flag), `last` (history: per site, the last call's class and Func); actions `CallHit`, `CallMiss`, `CallFatal`, `NewRequest` |
| `NameCaches` | `ClassCache::lookup`, `lookupKnownClass<checkOnly>`, `FuncCache::lookup`, `stringMatches`, `requestInit` | `defined` (each NamedEntity's class slot), `fdefined`, `cline`/`fline` (the lines of a ClassCache and a FuncCache: key string and value), `refs` (each string's reference count), `stack` (lookups waiting for the autoloader), `last` (history: the last lookup's result); actions `ClassCacheLookup` (hit, miss, miss to the autoloader), `LookupKnownClass`, `DefineClass`, `DefineFunc`, `AutoloadReturn`, `FuncCacheLookup` (hit, miss, fatal), `EndRequest` |
| `GlobalCache` | `GlobalCache::lookup`/`lookupCreate` and `BoxedGlobalCache::lookup`/`lookupCreate`, all through `lookupImpl`, with `tvBox` | `slot` (each global's entry in the globals array: none, a value, or a `KindOfVariant` pointing to a RefData), `cell` (RefData contents), `nextRef`, `bound` (locals bound by `global`), `lastRead` (history); actions `GlobalGet`, `GlobalSet`, `BoxedLookup`, `BoundGet`, `BoundSet`, `EndRequest`; refines `GlobalVars` |
| `PropCache` | `propLookupPrep`, `propSetPrep`, `PropCacheBase::lookup` and `::set`, over `ClassLookup`'s `getDeclPropIndex`; `Instance::propW`, `setProp` and `unset` from PHP's semantics | `classes` and `decl` (the linked classes and `getDeclPropIndex`'s results, never changed), `objs` (per object: which declared slots are set, and its dynamic properties), `line` (per site: key and offset), `acc` (history: the last access's outcome and the uncached outcome); actions `PropLookup`, `PropSet`, `UnsetProp`, `PNewRequest` |
| `GlobalVars` | the abstract specification of PHP's globals: one value per name, reads, assignments, `global` bindings | `gv`, `bound`, `seen` |
| `ClassLifecycle` | the abstract specification: the spec's lifecycle Unlinked, Linked, Superseded, Reclaimable, Freed, with requests holding pointers | `status`, `holders`; `Reclaim` refines it |
| `Intern` | `StringData::GetStaticString` | `table`, `nextPtr`, `freed`, `pc` per thread, `returned` (history) |
| `StringData` | `StringData`'s constructors, `releaseData`, `append`, `setChar`, `escalate`, `inc`, `hashHelper`, `preCompute`/`setStatic`, `isNumericWithVal`, `isNumeric`; `is_numeric_string`, `increment_string` and `SharedVariant`'s count from the spec; composed with `Intern` | `obj` (per thread: `kind`, `str`, `hc` the cached hash, `nn` the sign bit), `sv` (`refs`, `freed`), `svHeld` (the APC store's reference), `lastNum`/`lastIsNum` (histories), and `Intern`'s variables; actions `NewString`, `NewShared`, `Release`, `ApcDelete`, `StrAppend`, `SetChar`, `Inc`, `HashHelper`, `IsNumericWithVal`, `IsNumericStatic`, `InternLocal` and `Intern`'s `Insert` |
| `MCDefine` | two requests; interface `I`, traits `T1`, `T2` (two versions), class `P implements I`, class `K extends P use T1, T2 { T1::m insteadof T2; T1::m as protected m2; }`, class `Q use T1`; `P` declares `$a` and `static $ts`, which `T1` declares too; class `S extends K { static $a; }` | |
| `MCDefineAlias` | the two alias-rule scenarios of findings 1 and 2 | |
| `MCProps` | two requests linking classes with every kind of property (see the module's header), and the three property scenarios of findings 3 to 5 | |
| `MCTargetCache` | two threads, one class slot, two constants, an allocator that has one bit left in its first block | |
| `MCIntern` | three threads, two strings | |
| `MCStringData` | two threads; bytes `"1"` and `" "`; strings of at most two bytes; one interned content `"1 "`; one APC value `"1"` | |
| `MCReclaim` | two threads, two Classes of one name | |
| `MCClassInit` | one request; `class P { $a = <non-scalar>; static $s = <non-scalar>; }`, `class D extends P { static $t; }`, `class E extends D {}`, `class U { const A = FOO; static $u = <non-scalar>; }`, linked by `ClassLink`'s `NewClass` | |
| `MCMethodCache` | `$o->f()` call sites in every context, on objects of `class A { private f }`, `class B extends A { public f }`, `class C extends A {}`, `class D { public f; public __call }` (two declaration orders) and `class E { public __call; protected f }`, linked by `ClassLink`'s `NewClass` | |
| `MCNameCaches` | one request; class `A`, interface `B`, no class `C`; functions `A` and `C`; five name strings: `sA` and `sA2` (both "A"), `sa` ("a"), `sB` ("B", with the hash of "A"), `sC`; two lines per cache; one autoload at a time | |
| `MCGlobalCache` | one request; globals `x` and `y`, values null, `v1`, `v2`; one RefData per global | |
| `MCPropCache` | one request; `class A { private $x; }`, `class B extends A { public $x; }`, and for finding 13 `class M { public $x; __get; __set }`; an object of each; names `x` and `z`; four sites, one per cache | |
| `MCClassInitCns` | one request; `class P { const A = FOO; const K = 1; }`, `class D extends P {}`, `class E extends D {}`; `MCClassInitCnsOwner.cfg` checks `ConstantOneValue` (finding 14), `MCClassInitCns.cfg` the per-class `ConstantStable` | |

### How the code maps to the modules

- **A PreClass is a constant record** (`PreClass[p]`): name, attributes, mock flag (the `__MockClass` user attribute), parent name, interface and trait names, methods (`name`, `attrs`, `arity`), precedence and alias rules, constants and properties (`name`, `attrs`, `val`).
- **Several PreClass ids may share a name.** Such ids model several units declaring the same class.
- **A linked Class is a record** with these fields: `pc`, `parent`, `usedTraits`, `methods`, `traitsBegin`/`traitsEnd`, `declIfaces`, `allIfaces`, `consts`, `props`/`propInit`, `sprops`, `pinitVec`/`sinitVec`/`needInit` and `classVec`.
- **A method entry is a cloned Func:** `cls`, `base` (`baseCls`), `privAnc` (`hasPrivateAncestor`), and `body`. `body` is false when the bytecode came from an abstract declaration.
- **A property entry** keeps its name, its mangled name (blank for an inherited private), its attributes and its declaring class. A static property entry keeps its declaring class and value. Storage is shared with the parent exactly when the entry's class is the parent's.
- **Initial values** are model values. `NonScalar` stands for a value that is not a scalar and needs `86pinit`/`86sinit`.
- **Each operator keeps the control of its function:**
  - every early return is a `Failed` result;
  - a failed `ASSERT` or a NULL dereference is a `Crash` result;
  - loops are `FoldLeft`s in the code's order;
  - the candidate lists of `m_importMethToTraitMap` are sequences;
  - `MethOrder` is the map's iteration order.
- **One definition is one atomic step.** Definitions are serialized by the class lock, and a fatal error ends the request (the request's `env` is reset).
- **A crash ends the process.** `Restart` empties every request, the clsList and the linked classes, and sets the history flag `crashed`. A failed `ASSERT` is modelled as a crash in either build: a debug build aborts, and a release build goes on with the invalid slot, whose outcome the model does not follow.
- **`EndRequest` is `requestInit`:** the next request on the thread starts with zeroed slots. `TargetCache` checks that this is so (`RequestStartsClean`).
- **Allocator steps are atomic.** `allocBitImpl`, `namedAlloc` and `fillConstant` hold the recursive `HandleMutex`, and a thread's block is written only by that thread, so each of these is one step. `allocStatic` takes no lock; it is two steps, its read of `s_frontier` and its write.
- **`requestInit`'s `madvise`** zeroes whole pages up to the frontier it reads. `PageBytes` is a small stand-in for the page size, so that slots beyond the frontier are not zeroed by accident.
- **`StringData` keeps one string per thread.** A string is what its fields say: a literal (`IsLiteral`), a malloc'ed buffer, or an APC-shared one (`IsShared`, with `m_shared`). Contents are byte sequences over a two-byte alphabet, enough for "numeric", "numeric with trailing blanks" and "not numeric". `m_hash` is split into the cached hash `hc` (the contents it was computed from) and the sign bit `nn`. Each mutator is one step, with its `releaseData`, `escalate` and `attach` calls in it: the string belongs to one thread, and only the `SharedVariant`'s count is shared with the APC store (`ApcDelete`) and the other threads. An append past `MaxLen` is the `MaxSize` throw, which leaves an empty object. `is_numeric_string` is not in this repository; it is modelled as PHP defines it: leading blanks skipped, digits, then trailing blanks allowed only when `allow_errors` is set. Interning a thread's string is `Intern`'s `Find` for its contents; `IsNumericStatic` asks `isNumeric` of a string in the static table, which `setStatic` precomputed.

- **`GetStaticString`** is `Find` (the look-up, and on a miss the new `StringData`) then `Insert`. Other threads may run between the two. The table is created by the first call, during static initialization (the `StaticString` globals) and before any request thread runs, so it exists in every initial state.

- **`ClassInit` is one request's call stack.** Each function is a frame with a program counter, and each step between two calls is one action. An initializer (`86pinit`, `86sinit`) is user code run through `invokeFunc`. It may return, create an object of a class (`initialize`) or read a static of one (`getSProp`); an autoloaded class constant is how a constant initializer gets there. The constant `UserReentry` decides whether user code may touch a class being initialized, or a subclass of one. A static array is abstracted to the storage cell each name refers to: its own `<<array, name>>`, or the declaring class's cell when `initSProps` aliased it through `getSProp`. A failed `ASSERT` sets `asserted` and continues, as a release build does. A constant read (`lookupClassConstant` calling `clsCnsGet`) is a frame too: a scalar is returned at once; otherwise the request's array for the class is made by `initClsCnsData` (and its ancestors' that are missing, in the same step: no user code runs there), and an Uninit slot is computed by the declaring class's `86cinit`, whose result `invokeFunc` stores into the slot when it returns. Constant values are abstracted to what the initializer's global `FOO` gives before and after a `define()`.

- **`Reclaim` keeps every `s_classesMutex` section in one step.** `atomicRelease`'s walk and unlink, and `defClass`'s insert, do all their work under the mutex, so two of them never interleave and the mutex is not a variable. The lock-free readers interleave with them at every pointer read. A reader keeps every pointer it reads until its request ends, which is what the spec allows it. `atomicRelease` is three steps: the reset of `m_cachedOffset`, the locked unlink (a walk that reaches NULL sets `crashed`), and the Treadmill hand-over. The Treadmill is modelled from the spec and HHVM's design: an item waits for the threads in a request at hand-over and is freed at the request end that makes that set empty. Its timestamps are replaced by that set, which orders the same requests without an unbounded clock.

- **`MethodCache` models one cache line per call site.** The cache is direct-mapped by `Class*`, and every class is taken to hash to the line the site uses: that is the case where one class's entry is looked at for another. A hit returns the line. A miss asks `wouldCall` about the line's previous Func (unless that was a `__call`), then `lookupMethodCtx` for the name, then for `__call`, and fills the line. When nothing is found, `lookupObjMethod` raises a fatal and the request ends (`CallFatal` is `NewRequest`). `lookupMethodCtx` is not in this repository; its model takes the method in the class's table, checks a private or protected one against the context through its `baseCls`, and calls the context's own private method instead when the class derives from the context and the method found has a private ancestor. The linked classes are a state variable that no action changes, so that TLC evaluates the linker once.

- **`NameCaches` models names as string objects.** Each has a text, and each text has a hash and a case-folded NamedEntity. A line is chosen by the hash (`keyToPair`, whose code is not in this repository, is taken to be the hash modulo the number of lines). `stringMatches` compares the objects, then the hash and the characters. A ClassCache miss on a defined class fills the line in one step. One on an undefined class pushes a frame and lets the autoloader's user code run: it may define classes and functions and look names up itself, through the same lines. `AutoloadReturn` then resumes the innermost frame, which reads the class slot again and either raises `undefinedError` or fills the line, dropping the reference of the key the line holds at that moment. A string's reference count starts at one, the reference the program holds. A fatal error ends the request, and `requestInit` zeroes the caches for the next.

- **`PropCache` models one line per site,** as `MethodCache` does. `propLookupPrep` and `propSetPrep` choose the cache from whether the context class and the name are known statically, and so what the key holds: the class, the class and name, the class and context, or all three (`KeyOf`). The `Key` types and `keyToPair` are in a header that is not in this repository; the key is taken to compare exactly the fields its cache's name says. A line holds the key and the declared slot's offset. A hit reads or returns the object's slot at that offset, and a read of an unset slot raises the notice (lines 789–797). A miss calls `propW` or `setProp` and caches the offset when the result is a declared slot (lines 837–858, 897–904). `propW`, `setProp` and `unset` are modelled from PHP's semantics over `getDeclPropIndex`: an accessible declared property, `__get`/`__set` for an unset or inaccessible one (a fatal error without them), the object's dynamic properties for an undeclared name, and a notice otherwise. Values are abstracted to whether a slot is set. The `baseIsLocal` flag changes only the base's reference count, which is not modelled.

- **`GlobalCache` models the globals array of one request and the four look-ups.** `GlobalGet` is `GlobalCache::lookup` followed by a read through the pointer it returns (NULL reads as undefined); `GlobalSet` is `lookupCreate` followed by an assignment. Both go through a boxed slot's RefData (`Deref`, lines 480–482). `BoxedLookup` is `BoxedGlobalCache::lookup` or `lookupCreate` for `global $n`: it creates the global as null if allowed (`Created`), boxes an unboxed slot (`Box`, `tvBox`) and binds the local to the RefData. `BoundGet` and `BoundSet` are the function's reads and assignments of that local. The cache's `m_globals` and `m_hint` only speed up the array look-up and the name's reference count is the caller's; neither is modelled. The mapping to `GlobalVars` takes a global's value through its RefData when boxed, and the property `GlobalsRefined` is `GlobalVars`' specification under it.

## 3. Runs

| Run | Checks | Shows |
|---|---|---|
| `define_core` (`MCDefine.cfg`, pass) | `TypeOK`, `AncestryLaw`, `NoNarrowing`, `TraitPrecedence`, `ReuseSound`, `LinkNeverCrashes` | see below |
| `props_core` (`MCProps.cfg`, pass) | `StaticAlias`, `NoKindFlip`, `PropNoNarrowing`, `GetDeclPropIndexSound` | static storage is shared exactly with the declaring ancestor; no name is both static and instance through own declarations; properties never narrow; `getDeclPropIndex` agrees with PHP's visibility rule for every class, context and name (the types of `ClassDefine` are checked by `define_core`) |
| `tc_core` (`MCTargetCache.cfg`, pass) | `TypeOK`, `HandlesDisjoint`, `RequestStartsClean`, `BitAddressingAgrees`, `NamedHandleStable` | see below |
| `tc_solo_static` (`MCTargetCacheSolo.cfg`, pass) | `HandlesDisjoint` | one thread's `allocStatic` calls, between bit blocks padded to 64 bytes and `namedAlloc`s, take slots that overlap nothing and stay below `s_frontier`. This is the only setting where `allocStatic` is correct: beside a second allocating thread it is finding 6. The run does not check that race |
| `classinit_core` (`MCClassInit.cfg`, pass) | `TypeOK`, `StaticShared` | see below |
| `propcache_core` (`MCPropCache.cfg`, pass) | `PropTypeOK`, `PropCacheAgrees` | see below |
| `classinit_const` (`MCClassInitCnsOwner.cfg`, violation) | `ConstantOneValue` | see below (finding 14) |
| `reclaim_core` (`MCReclaim.cfg`, pass) | `TypeOK`, `NoUseAfterFree`, `ListIntact`, `ReleasedEventuallyFreed`, `LifecycleRefined` | see below |
| `strings_core` (`MCStringData.cfg`, pass) | `StringTypeOK`, `InternCanonical`, `HashCacheSound`, `NumericWithValAgrees`, `SharedSafe` | see below |
| `namecaches_core` (`MCNameCaches.cfg`, pass) | `TypeOK`, `LookupsAgree`, `KeyRefsAgree`, `KnownCheckSound` | see below |
| `methodcache_core` (`MCMethodCache.cfg`, pass) | `MethodCacheAgrees` | see below |
| `globalcache_core` (`MCGlobalCache.cfg`, pass) | `GlobalsRefined` | see below |

`define_core` explores every order in which two requests define, reuse, fail and end. It reaches 82,892 distinct states. The run shows:
- every linked or reused class holds its ancestors at their depths, and `classof(Class)` agrees with the ancestor and interface relation;
- no method is narrower than its parent's or than an interface's public method;
- the `insteadof` rule decides which trait's method a class gets, with the traits used in either order (`K` is declared twice, using `T1, T2` and `T2, T1`), as the spec's "trait precedence determinism" requires;
- whatever a request has defined under a name equals what a fresh link of that PreClass would produce now. This is the spec's "idempotent relinking" and the soundness of `avail`;
- no link crashes on the paths of findings 4 and 5 when they are taken as the code means: `K` takes `T1`'s `static $ts` over the one `P` declares (the redeclared branch of `importTraitStaticProp`, class.cpp:1950, reading `P`'s static table), and `S`'s link fails with "Cannot redeclare non-static" after walking `K` and then `P` for the PreClass that declares `$a` (class.cpp:1821).

`tc_core` explores about 10,700 states. Two threads, each fresh or having run earlier requests, run requests in every interleaving. In them they:
- fill two constants, one of whose bits opens a new bit block at a frontier that is not 64-byte aligned;
- initialize one class's property data, where both threads may find `m_propDataCache` unset and both allocate.

The run shows:
- handles and bit blocks never overlap and lie below `s_frontier`;
- a name's handle, and a class's `m_propDataCache`, never change once set;
- the word and mask the translated code uses name the same bit as the byte-wise `testBit`;
- a thread's request sees no slot written by an earlier request, although `requestInit` reads `s_frontier` without the lock.

`classinit_core` explores 338,654 states of one request. The request may also read `U::A` and `define()` the global `FOO` that `U`'s 86cinit reads. The request creates objects of the four classes and reads their statics in every order. Its initializers create objects and read statics of any class not being initialized. The run shows:
- every static slot of a stored array refers to the cell in the array its declaring class has stored. A write to `D::$s` is therefore seen as `P::$s` (spec Scenario F), however `P` came to be initialized: first, or in the middle of `D`'s slot loop.

`propcache_core` explores 42,840 states of one request and the next. Objects of `A { private $x; }` and `B extends A { public $x; }` are read, assigned and unset in every order, through one site of each of the four caches: `$o->x` outside any class (PropCache, keyed by the class), `$o->x` where the context is known only at run time (PropCtxCache), `$o->$n` in a method of `A` (PropNameCache) and `$o->$n = v` with both dynamic (PropCtxNameCache). The names are `x` and the undeclared `z`. The run shows:
- every read through a cache gives what `propW` gives uncached, and every assignment does what `setProp` does: the declared slot for the object's class, context and name (`A`'s private slot of a `B` from `A`'s methods, `B`'s public one elsewhere), a notice for an unset property, a dynamic property for `z`, whichever key filled the site's line before and whatever was unset since.

`classinit_const` is a violation run over the request of `MCClassInitCns`. That request reads `A` and `K` through `P`, `D` and `E` in every order, may `define('FOO')` at any point, and lets the `86cinit`'s user code read any constant that is not being computed. It checks `ConstantOneValue`: a constant declared by `P` has one value in the request, whichever class it is read through. TLC finds it violated in a 10-state trace. `D::A` is computed into `D`'s array while `FOO` is undefined, `FOO` is then defined, and `P::A` is computed into `P`'s array with the other value (finding 14). `MCClassInitCns.cfg`, kept outside the runs, checks the weaker `ConstantStable` over the same request: each class's own array computes `A` once and keeps it.

`reclaim_core` explores 6,118 states. Two threads start and end requests, define classes of one name, fail to link some, walk clsList without the lock and release listed classes. The run shows:
- no request ever holds a freed Class, although classes it holds are unlinked and handed to the Treadmill meanwhile;
- clsList is always an acyclic list of exactly the live classes not yet unlinked, and the unlink walk always finds its Class;
- every Class whose release has begun is eventually freed (`ReleasedEventuallyFreed`, under the fairness of section 5);
- `Reclaim` implements `ClassLifecycle` under the mapping `Status`, which is checked as the property `LifecycleRefined`. A Class on the list is Linked. One off it but not yet handed over is Superseded. One with a Treadmill item is Reclaimable. The abstract spec frees a Class only once it is Reclaimable and no request holds it.

`methodcache_core` explores 6,144 states. Six call sites (`$o->f()` outside any class and in a method of each class) are called in any order on objects of the five classes of `MCMethodCache`, across requests, with D declaring `__call` before `f`. The run shows:
- every call calls the Func, with the `__call` flag, that `lookupMethodCtx` resolves for the object's class and the site's context, whichever class filled the line before: through the `wouldCall` shortcut for a private method of an ancestor, for a public method at the same slot and for a same-base method, and with another class's `__call` in the line (E's `__call` sits at the slot of D's).

`namecaches_core` explores 63,898 states of one request. The request looks the five strings up as classes (through ClassCache and both kinds of `lookupKnownClass`) and as functions, in every order, and defines the classes and functions at any point. A missing class is autoloaded by user code that may do all of that too. The run shows:
- every class or function a lookup returns is the one the request has defined under that name, although `A` and `B` share a line and a hash, and `sA`, `sA2` and `sa` are three objects naming one class;
- no line ever caches a missing class;
- each string's reference count is one plus the number of lines keyed by it, also when the autoloader's lookups refill the line the outer miss is waiting to fill;
- `lookupKnownClass<true>`'s result passes the attribute check exactly when the class is defined and of the wanted kind.

`globalcache_core` explores 229 states of one request (and of the next, after `EndRequest`). Two globals are read and assigned through `GlobalCache`, bound by `global` through `BoxedGlobalCache` with and without creation, and the bound locals are read and assigned, in every order. The run shows:
- the caches implement PHP's globals (`GlobalsRefined`): every read, through `GlobalCache` or a bound local, returns the global's last assigned value, whichever cache created the global and whether it was boxed before or after the first assignment.

`strings_core` explores 42,476 states. Two threads make literal, malloc'ed and shared strings, append to them, set characters in range and past the end, increment, hash, test for numericness and intern them, while the APC store may delete its value and `GetStaticString` calls interleave. The run shows:
- every call of `GetStaticString` for the same contents returns the one pointer in the table (`InternCanonical`);
- a cached hash is always the hash of the string's current contents, through `escalate`, `attach` and the in-place writes of `setChar` and `inc` (`HashCacheSound`);
- `isNumericWithVal` answers what `is_numeric_string` says of the current contents, although an earlier lenient call may have cached "not numeric" in the sign bit (`NumericWithValAgrees`);
- a string that still uses the `SharedVariant`'s buffer never sees it freed, and the count never drops below its users (`SharedSafe`).

Findings 1 to 6, 9 and 10 are reproduced by `MCTargetCacheStatic.cfg` (`HandlesDisjoint` violated, over `MCTargetCache`), `MCDefineStale.cfg` (`ReuseSound` violated) and `MCDefineAbstract.cfg` (`ConcreteHasBodies` violated), both over `MCDefineAlias`, `MCMethodCacheSlot.cfg` (`MethodCacheAgrees` violated, over `MCMethodCache`), `MCPropsFlip.cfg` (`NoKindFlip` violated), `MCPropsWalk.cfg` and `MCPropsAssert.cfg` (`LinkNeverCrashes` violated), all three over `MCProps`, and `MCClassInitCnsReentry.cfg` (`ConstantStable` violated, over `MCClassInitCns`). Finding 14 is the run `classinit_const`. Findings 7 and 8 are reproduced by `MCClassInitReentryStaticShared.cfg` (`StaticShared` violated, over `MCClassInit`). Finding 13 is reproduced by `MCPropCacheMagic.cfg` (`PropCacheAgrees` violated, over `MCPropCache`). Findings 11 and 12 are reproduced by `MCStringDataSharedRefsExact.cfg` (`SharedRefsExact` violated) and `MCStringDataIsNumericAgrees.cfg` (`IsNumericAgrees` violated), both over `MCStringData`. They are not in `PROJECT.json`'s run list, which has room for twelve runs.

The mutants in `PROJECT.json` show that each of these properties can be broken. Each one takes a plausible bug in the mapped code:
- a forgotten `setBaseCls`;
- an off-by-one in the ancestry vector copy;
- a dropped visibility check;
- a precedence rule keeping the first used trait's candidate, which is right only when the selected trait is used first;
- an `avail` that skips traits;
- a dropped kind or access check in `setProperties`;
- a static keeping its parent as declarer;
- an inherited private left unblanked;
- `getStaticPropInitVal` looking in the importing class's own, not yet created, static table;
- a bit block that does not advance the frontier;
- zeroing only on a thread's first request;
- a word size of 8 bytes in `bitOffToHandleAndMask`;
- a `namedAlloc` without its map look-up;
- a losing insert returning its own, deleted, copy;
- a `GetStaticString` miss that returns the caller's string rather than a copy;
- `setChar` writing in place without clearing the hash;
- `isNumericWithVal` caching "not numeric" for the strict test too;
- `append` on a shared string keeping the `IsShared` flag after its `decRef`;
- `initSProps` aliasing through `getSProp` on the class itself rather than the declaring class;
- an aliased slot given its own storage instead of the cell `getSProp` returned;
- a Treadmill item that waits only for the releasing request, for every request but it, or for every thread;
- a Class freed at once instead of being handed to the Treadmill;
- an unlink that does not store `m_nextClass`;
- `allocStatic`'s `allocAt` not advancing `s_frontier`;
- `wouldCall` accepting any same-named method at the slot;
- `stringMatches` trusting an equal hash;
- a ClassCache miss dropping the reference of the key it read before the autoloader ran;
- a ClassCache miss caching what the autoloader did not define;
- `lookupKnownClass<true>`'s failing flags swapped;
- `MethodCache::lookup` taking the shortcut after a `__call` entry;
- an unboxed global look-up returning the `KindOfVariant` slot itself instead of its RefData;
- `tvBox` boxing a copy and leaving the global's slot unboxed;
- PropCtxCache's key without the context;
- a property cache filled whatever `propW` returned.

### Findings

1. **Stale alias trait** (class.cpp:1183, 563). `applyTraitAliasRule` resolves `T2::x as y` through `Unit::loadClass` even when the class only uses `T1`. `avail` rechecks only the parent, the declared interfaces and the used traits. A later request can therefore reuse the Class where `T2` is another definition or undefined. There the reused class keeps the old `y` (the trace ends with `K` reused while a fresh link would fail on the unknown trait).
2. **Alias drops abstract** (class.cpp:1261). `T3::a as protected` on an abstract `a` gives the imported method the attributes `{Protected}`. `setMethods`' concrete check passes, and the concrete `K` links with a method without a body. The spec's Abstractness rule says this must fail.
3. **Kind flip through a trait** (class.cpp:1897). `importTraitInstanceProp` looks only at the instance property map. `class KF extends P { use TF; }`, with `P`'s `static $s` and `TF`'s instance `$s`, therefore links with `$s` both static and instance. Own declarations of that kind are refused, and spec 4.2 step 6 forbids it.
4. **NULL ancestor walk** (class.cpp:1821). An own static property redeclaring an instance property walks up the parents for the PreClass that declares it. The error path is taken when the instance property came from a trait of an ancestor. No PreClass declares such a property, so the walk dereferences NULL instead of raising "Cannot redeclare non-static".
5. **Assert on a trait static** (class.cpp:933, reached from 1950). A trait static property that redeclares a static declared by the class itself makes `getStaticPropInitVal` search this class's static table. That table is created only after the import (class.cpp:1871), so `ASSERT(s != kInvalidSlot)` fails. The code in question is `class C { use T; static $ts; }`, with `T` declaring the same `static $ts`.
6. **`allocStatic` without the lock** (targetcache.cpp:933). `allocStatic` advances `s_frontier` through `allocAt` and does not take `HandleMutex`, which `allocBitImpl` and `namedAlloc` hold. In the trace, thread 1 reads `s_frontier = 72`. Thread 2's first `requestInit` then opens a bit block at [72, 192). Thread 1 writes `s_frontier = 80` and takes [72, 80): the frontier moves back and two allocations overlap.

7. **Re-entrant static initialization** (class.cpp:2421, reached from 650–655). `initialize` checks `getSPropData()` before `initSProps` and stores the result after the 86sinits have run. In the trace, `P`'s 86sinit creates an object of `D`, for instance through an autoloaded constant. That initializes `D`, whose `initSProps` aliases `$s` by calling `P::getSProp`. That call finds `P`'s static data still unset, initializes `P` again, and stores `P`'s array. The outer `setSPropData` then fails `ASSERT(getSPropData() == NULL)`. The spec (line 101) allows initializers to call arbitrary user code.
8. **Split static storage** (class.cpp:2426). In a release build the outer call of finding 7 overwrites `P`'s stored array. `D`'s `$s` still refers to the inner array, so `P::$s` and `D::$s` are two storage locations, against spec Scenario F.
9. **Re-entrant constant computation** (class.cpp:985–993). `clsCnsGet` takes the slot pointer, finds it Uninit and calls the `86cinit`; `invokeFunc` writes the slot only when that returns. In the trace, the `86cinit` of `P::A` runs user code (an autoloader) that reads `P::A`. The inner `clsCnsGet` finds the slot still Uninit, computes `A` while `FOO` is undefined and returns that. The user code then defines `FOO`, and the outer call overwrites the slot with the other value. One request has read two values of `P::A`, and `lookupClassConstant` (targetcache.cpp:965) has cached the first in its target-cache slot. Zend rejects a constant that refers to itself while it is being evaluated.
10. **Method cache shortcut** (class.cpp:2451, reached from targetcache.cpp:363). `wouldCall` returns the method at the previous Func's slot when it has the same name and is public, without the context check. In the trace (three calls at one site in a method of `A`, with D declaring `f` first), a call on a `D` object fills the line with `D::f`. A call on a `B` object then misses, and `wouldCall` finds `B::f` at that slot, public, and returns it. `lookupMethodCtx` gives `A::f`, because `A`'s private `f` wins inside `A` for an object derived from `A`. The earlier call on `B` (or a call on `C`) through the same site gives `A::f`, so what a call runs depends on the class the line held before.
11. **Escalate keeps the SharedVariant's reference** (string_data.cpp:249–262, reached from 356 and 366). `setChar` and `inc` on an APC-shared string call `escalate`, which copies the bytes into a malloc'ed buffer and clears `IsShared` without `m_shared->decRef()`. `releaseData` later frees only the malloc'ed buffer, so the reference is never dropped. `append` (line 195) and `releaseData` (line 154) do drop it. In the trace, a thread makes a shared string (count 2: the store and the string) and sets a character in range. The string is now malloc'ed while the count stays 2 (`SharedRefsExact` violated). The APC value then outlives its deletion from the store. Nothing is freed early (`SharedSafe` holds).
12. **Static and non-static `isNumeric` disagree** (string_data.cpp:433, 404). For a static string, `isNumeric` reads the sign bit that `preCompute` set from `isNumericWithVal(..., allow_errors = 1)`, the lenient test. For any other string it calls the strict test, `allow_errors = 0`. `"1 "` (a digit and a trailing blank) is numeric for the first and not for the second. In the trace, a thread builds `"1 "` by appending to `""` and interns it; `isNumeric` on the static string then answers true, while the strict test that any other string with these contents gets answers false (`IsNumericAgrees` violated). This depends on `is_numeric_string`, which is not in this repository, treating trailing blanks as an error, as PHP's does.
13. **A property cache hit skips `__get` and `__set`** (targetcache.cpp:789–797, 875–877). A line keeps the offset of a declared property after the property is `unset()`. A read that hits then raises the undefined-property notice and returns null. A write that hits stores into the slot. PHP, and the miss path through `propW` and `setProp`, call the class's `__get` or `__set` for an unset declared property instead, which lazy-loading proxies depend on. In the trace, `$o->x` on an object of `M` fills the PropCtxCache line, `unset($o->x)` follows, and the next `$o->x` gives the notice where `__get` is due (`PropCacheAgrees` violated). This rests on `propW` calling `__get` for an unset accessible property, which PHP specifies; `propW` itself is not in this repository.
14. **A constant computed once per reading class** (class.cpp:981, 985–993). `clsCnsGet` looks the constant up in the array of the class it is called on, `getClsCnsData(this)`, and computes an Uninit slot there by invoking the declaring class's `86cinit`. An inherited constant is therefore computed once through the declaring class and again through each subclass, each time reading whatever the globals are then. In the trace, `D::A` is read while `FOO` is undefined. The request then calls `define('FOO', ...)`, and `P::A` gives the defined value. One constant now has two values in one request (`ConstantOneValue` violated). The spec gives each constant-table entry one owner, its most specific declaring class, and in PHP `D::A` is `P::A`.

## 4. Bounds and why they are enough

- **`MCDefine` and `MCProps` use two requests**, which is what it takes for one to reuse what the other linked. Requests are a symmetry set: all requests run the same code.
- **`MCDefine` has nine PreClasses and seven names.** Together they make every outcome of every action happen:
  - reuse;
  - `avail` answering Fail (K's `T2` undefined) and False (K against the other `T2`);
  - a link failing by narrowing (`T2b`'s protected `h` over `P`'s public `h`);
  - a link failing by the concrete check (`Q`);
  - a link failing by the non-static-to-static check two levels down (`S`);
  - a parent undefined;
  - interface constants.
- **`MaxClasses = 7`** is the number of distinct Classes that can ever link here, so the bound never cuts a behaviour: with 8, TLC reaches the same 82,892 states.
- **Method arities** are 0 or 1, enough for `parametersCompat` to be exercised against an abstract interface method.
- **Every generated `86ctor` is public.** `setSpecial` asserts that the `86ctor` it falls back to is public (class.cpp:1076), so no other scenario is realistic.
- **`MCProps` declares each property kind once:** public, protected and private, instance and static, scalar and non-scalar, inherited, redeclared, weakened, shadowed and imported from a trait. Each property check of `setProperties` succeeds for some class and fails for another (`R`, `S`, `C`), and one link crashes (`C`).
- **`MCTargetCache` starts where a real allocator is after 511 bits and one pointer slot:** `s_frontier = 72`, one bit left. So the second bit any thread takes opens a block at an unaligned frontier, and word and byte addressing differ in the word they start from. Threads are a symmetry set. Each thread may or may not have run earlier requests, with writes at the old slot and the first bit byte. `MaxStatics = 0` in `tc_core`, because any `allocStatic` beside another allocating thread is finding 6.
- **`MCIntern` has three threads and two strings.** That lets two threads race on one string while a third finds it, and lets all three lose or win. Its scenario is kept on disk; the run in `PROJECT.json` is `strings_core`, which composes `Intern` with `StringData` for two threads.
- **`MCStringData` has two threads, the bytes `"1"` and `" "`, `MaxLen = 2`, `OffsetLimit = 1` and `MaxSvRefs = 3`.** New strings have at most one byte, so every append, `setChar` past the end and `inc` that grows has room to happen, and an append of two bytes hits `MaxSize`. `"1 "` is numeric for the lenient test and not for the strict one, which is what tells the sign bit's two uses apart; `" "` and `""` are not numeric for either. The APC value `"1"` makes a shared string that can be appended to, set and incremented. `MaxSvRefs` caps the count, which finding 11 lets grow without limit; three is two users and the store. Threads are a symmetry set.
- **`MCReclaim` has two threads and two Classes of one name.** That is enough for a request to hold a Class another thread releases. It is also enough for both kinds of unlink (at the head, and through a predecessor's `m_nextClass`), and for a walk to step from one unlinked Class into another. A third Class multiplies the state space about ninety times (564,344 states), too many to check under the coverage the runs use, and adds no new kind of step. There is no symmetry: the run checks liveness.
- **`MCClassInit` has four classes:** a parent with both kinds of initializer, an inheriting subclass with its own static, a grandchild that only aliases, and an unrelated class. That is enough for an alias to cross two levels and for user code to initialize a class that is neither an ancestor nor a descendant. `MaxDepth = 4` bounds the stack depth at which user code may still call; the re-entry trace reaches its violation within it. `D`'s `pinitVec` holds `P`'s 86pinit twice, since `setInitializers` copies the parent's vector and then appends the 86pinit that `lookupMethod` finds, which is inherited.
- **`MCClassInitCns` has three classes in one chain.** That is enough for `initClsCnsData` to make a missing parent's and grandparent's array in one call, and for an inherited constant to be computed through each. The constant chain is a separate model because together with `MCClassInit`'s initializers it exceeds 4.7 million states. `MCClassInit` has only `U`'s constant, which exercises the constant actions beside the initializers. `A` is non-scalar and `K` scalar, which covers both branches of `clsCnsGet`. `MaxDepth = 4` lets an `86cinit`'s user code read a constant whose own `86cinit` reads another.

- **`MCMethodCache` has five classes and one method name.** They are enough for `wouldCall` to find the same Func (`C` after `A`), a private previous Func (`B` after `A`), a same-named public candidate, and nothing. They are also enough for `lookupMethodCtx`'s private, protected, private-ancestor, public and inaccessible cases, and for both fallbacks (`__call`, and a fatal for `A`'s private `f` outside `A`). Six sites, one per context, let each line be filled by each class in each context. One line per site is enough: a line holds one key, and a second line would only hold another class's entry, which the model already gives this line.

- **`MCNameCaches` has five strings, two lines and one autoload at a time.** Two objects of one text, a different case and an equal hash cover every branch of `stringMatches` and of the case-insensitive lookup. Two lines let a name's line hold the key of another name. A missing class covers both fatal paths, and an interface covers the wrong-kind case of the attribute check. One nested autoload is enough for the autoloader's own lookup to refill the line of the lookup it runs for. Two levels give 800,000 states, too slow under the coverage the runs use.

- **`MCPropCache` has two classes, two names, an object of each class and four sites.** `B` holds `A`'s private `$x` and its own public `$x`, so the slot for `x` depends on the context, and `A`'s `$x` is inaccessible outside `A` (a fatal error). `z` is declared nowhere, which gives dynamic properties. One site per cache covers each key kind; a dynamic-context or dynamic-name site is reached with every context and name. A second object of a class only repeats the first's slots, since offsets are per class. The classes have no `__get` or `__set`: with them, the check is finding 13, which `MCPropCacheMagic.cfg` adds an object of `M` for.

- **`MCGlobalCache` has two globals, three values and one RefData per global.** A slot is boxed at most once per request, so one RefData per global is all a request can create. Two globals let one be boxed while the other is not; three values (null among them) make every assignment observable as a change, including one to the value `lookupCreate` gives a new global.

## 5. Fairness

Only `reclaim_core` checks liveness, and only `Reclaim` assumes fairness. It assumes weak fairness of `EndRequest`, `ReleaseUnlink` and `ReleaseEnqueue` for every thread:
- a request is a bounded computation, and `EndRequest` is enabled whenever no release of its thread is half done;
- an `atomicRelease` that has started waits on nothing but `s_classesMutex`, which every holder releases within its step.

Nothing forces a thread to start a request or to define or release a class. The other runs check safety only.

## 6. Plan (remaining modules)

1. **The other target cache lookups:** `StaticMethodCache::lookup`, `StaticMethodFCache::lookup` and `SPropCache::lookup`. Each fills a per-request slot once, and the slot is read only within that request, where the class it names cannot change. A model would need the translated code's hit path, which is not in this repository.
2. **`setSpecial` and `setODAttributes`**, which would make the linking component complete.
3. **A refinement of definition:** an abstract definition spec, "each definition yields a fresh link", implemented by `ClassDefine` through a mapping of Class ids to their observable contents.

## 7. Not modelled

These parts are out of scope:
- PreClass construction and repo serialization (SQLite I/O);
- reflection and printing;
- `StringData::copy`, `Escalate(in)`, `negate`, `getChar`, the comparisons, conversions and switch hashes: they read a string and return a value, without changing the state the properties are about;
- the generated `system_globals.cpp`;
- the eval AST files.

None of them takes part in linking or in the concurrency protocol.

These parts are not in this repository and are modelled from the spec, marked `spec_modelled`:
- `Func::parametersCompat`;
- `Class::lookupMethod` and `VMExecutionContext::lookupMethodCtx` (in `MethodCache`);
- the caches' `keyToPair`, `Unit::GetNamedEntity`, and the class and function definitions the autoloader's user code makes (in `NameCaches`);
- `Unit::defClass` (in `ClassDefine`, and its clsList insert and walk in `Reclaim`);
- request start and end, and the Treadmill;
- the user code initializers run through `invokeFunc` (what it may call), and the `define()` builtin;
- `Instance::propW`, `setProp` and property `unset`, and the class's `__get`/`__set` flags (in `PropCache`);
- `is_numeric_string`, `increment_string`, and `SharedVariant`'s reference count and the APC store's delete (in `StringData`).

`TargetCache::invalidateForRename` is not modelled, because the `FuncCache` code it calls is not in this repository.
