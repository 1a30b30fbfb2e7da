# cpp_binder: verification project

cpp_binder reads C++ headers with clang and writes a D module that binds them.
This directory holds TLA+ models of the program, the TLC configurations that
check them on small instances, and TLAPS proofs about them. Source references
are to `src/source/` unless another directory is named.

## The system

| part | state it keeps | operations | talks to |
|---|---|---|---|
| Driver (`main.d`) | exit code | parse the command line, collect the clang arguments, build the AST, traverse it, enable the declarations of the given files, apply the configuration, translate, write | calls every part below once, in this order |
| Command line (`cli.d`) | `CLIArguments` | `parse_args` | driver |
| Configuration (`configuration.d`, `configuration.cpp`) | attributes of declarations and types | `parseClangArgs`, `parseAndApplyConfiguration` | applies attributes to the C++ model, in file order |
| C++ declarations (`cpp_decl.*`) | `declarations` (clang object to wrapper), `free_declarations`, per declaration its attributes | `DeclVisitor`: traverse, register, allocate; `isWrappable`, `shouldEmit`, `getChildren`, `arrayOfFreeDeclarations` | asked by the translation through the mirror `unknown.d` |
| C++ types (`cpp_type.*`) | `type_map` (clang type to object), a strategy per type | `Type::get` with `ClangTypeVisitor`, the getters of parts, `setStrategy`, `isReferenceType`, `isWrappable` | asked by strategy selection and translation |
| Name resolution (`nested_name_resolver.hpp`, `cpp_type.cpp`) | a stack of names, visitors in progress | `DelayedType::resolveType`, `DelayedExpression::getDeclaration` | asked for dependent names by `isWrappable`, strategy selection and translation |
| Expressions (`cpp_expr.*`, `translate/expr.d`, `dast/expr.d`) | a result per visit | `wrapClangExpression`, `translateExpression`, `buildConcreteExpression` | template arguments, default values, array lengths |
| Strategy selection (`translate/types.d`, `translate/decls.d`) | the strategy of each type | `determineStrategy`, `determineRecordStrategy`, `determineRecordTemplateStrategy` | writes the C++ types, lazily, in the middle of translation |
| Type translation (`translate/types.d`) | `translated_types` | `translateType` and one function per strategy, `resolveOrDefer` | calls `startDeclTypeBuild` |
| Translation pass (`translate/decls.d`) | `translated`, `placedDeclarations`, the chain of visitors | `populateDAST`, the visitors, `startDeclTypeBuild`, `placeIntoTargetModule` | fills the D tree |
| D syntax tree (`dast/`) | nodes, their members and parents, the modules | `addDeclaration`, `buildConcreteDecl`, `buildConcreteTree` | written by `dlang_output.d` |
| Output (`dlang_output.d`, `dlang_decls.d`) | files | write modules | driver |

Nothing runs concurrently. What is hard here is ORDER: one pass over the
declarations, in source order, discovers references to declarations it has
not reached, re-enters shared tables in the middle of building a node,
abandons nodes when an exception is thrown, catches that exception in a loop
and goes on with whatever was left behind. A declaration can be met several
times: redeclared, in a reopened namespace, listed twice by a body, referred
to before and after its visit. Unit tests (one header in, one D file out)
pin down a handful of these orders.

What makes each part correct:

- translation pass: each C++ name is bound once, filled, in its namespace, in
  source order, with its members; failures stay local; the pass ends;
- strategy selection: decided before it is asked for, never overruled once
  configured;
- C++ declarations: one object per declaration whichever redeclaration is met;
- C++ types: the object of a type is there when it is asked for, whatever
  sugar, cycle or failed part is around it;
- name resolution: the answer is what C++ finds; null where it finds nothing,
  or only by way of an alias template or of a class's own name;
- expressions: an operand that has no translation is never lost silently;
- configuration: the last file wins, whatever the order inside a file, and an
  entry changes nothing but what it is for;
- driver and command line: a phase runs only after the earlier ones succeeded.

The hazards, each with its line and the properties aimed at it, are in
`PROJECT.json`.

## Plan

| # | module | models | status |
|---|---|---|---|
| 1 | `Translator` | the translation pass with type resolution | done |
| 2 | `Bindings` | what that pass promises, abstractly; `Translator` implements it | done |
| 3 | `TranslatorProofs` | proofs about `Translator` | nine theorems: all its properties, the refinement of `Bindings` among them |
| 4 | `TypeTable` | the C++ types, configured strategies, the lazy choice of the others | done |
| 5 | `TypeTranslator` | `translateType` on top of `TypeTable`, with the memo table | done |
| 6 | `Traversal` | first pass: allocation, canonical declarations, free declarations, emission | done |
| 7 | `TypeTranslatorProofs` | proofs about `TypeTable` and `TypeTranslator` | ten theorems: all properties of `TypeTable` and all safety properties of `TypeTranslator`, that it implements `TypeTable` among them |
| 8 | `TraversalProofs` | proofs about `Traversal` | five theorems: all properties but `EnclosingFirst` |
| 9 | `Configuration`, `Driver` | both passes over the configuration files; command line, phases, exit codes, the output file | done |
| 10 | `DriverProofs` | proofs about `Driver` | five theorems: all its properties |
| 11 | `TypeMap` | how clang's types become `Type` objects | done |
| 12 | `TypeMapProofs` | proofs about `TypeMap` | five theorems: all its properties |
| 13 | `NameResolver` | the lookup of dependent names | done |
| 14 | `NameResolverProofs` | proofs about `NameResolver` | three theorems: all its properties |
| 15 | `Expressions` | wrapping, translating and printing expressions | done |
| 16 | `ExpressionsProofs` | proofs about `Expressions` | two theorems: all its properties |
| 17 | `Induction` | induction, recursive functions and growing sets, for the proofs | done |
| 18 | `Tree` | the concrete D syntax tree: members, modules, filtering, qualified names | planned |

Planned next: in `Translator`, free declarations that are members as well
(`Traversal` shows that they occur). Planned proofs:
`EnclosingFirst` of `Traversal`.

## `Translator`

One behaviour is one run of `populateDAST` on one C++ program. The program is
the variable `prog`; it never changes, and the initial states range over the
constant `Programs`, so one run of TLC covers a whole family of programs.

A D node is built in moments that need not be consecutive: it is *registered*
in the table `translated`, *named*, its types are set (`typed` counts them),
members are added (`members`), and it is *placed* (`placed`, `output`). The
variable `stack` holds the visitors in progress, with what a D stack frame
would hold: the declaration, the phase of its visitor, the loop index and the
namespace path. `started`, `built` and `threw` are history variables for the
properties; the only guard that reads one is `PerObject`, as a member variable
whose visitor threw is one whose `static_` was not set.

| state | code |
|---|---|
| `translated` | `translated`, `translate/decls.d:37`; the value is the class of the node |
| `placed`, `output` | `placedDeclarations`, and the calls of `destination.addDeclaration` |
| `members` | the arrays of fields, methods and nested declarations of a struct, interface, union or enum, as one sequence in the order of the calls |
| `next` | the loop index of `populateDAST` |
| `stack`, `status` | the call stack; an `assert(0)` makes the status `"aborted"` |

| actions | code |
|---|---|
| `PopulateSkip`, `PopulateTranslated`, `PopulateVisit`, `PopulateEnd` | the loop of `populateDAST` |
| `VisitNothing` ... `VisitNamespace` | what each `visit...` does before its first type or child |
| `TypeFallback`, `TypeReject`, `TypeResolve` | `translateType` and `resolveOrDefer` on one type; `TypeResolve` includes `startDeclTypeBuild` |
| `TypesEnd`, `EnumTypeEnd` | the end of a function, method, field, variable, typedef |
| `BaseReject` ... `BasesEnd` | `buildStruct` and `translateAllBaseClasses` |
| `ChildSkip`, `ChildAddAgain`, `ChildVisit`, `BodyEnd` | `translateStructBody` |
| `NamespaceChild`, `NamespaceEnd` | `translateNamespace` |
| `EnumConstant`, `EnumEnd` | `translateEnum` |

`Return` and `Throw` are the two ways out of a visitor. A return includes what
the caller does with the result: place it, or add it to the node of the
enclosing type. An exception is always caught by the innermost loop over
children, so `Throw` pops one frame.

Decisions made while translating from the code:

- The free declarations sort by the location of their canonical (first)
  declaration, so a record that is forward declared at the top comes before
  everything its definition uses. A namespace yields the children of all its
  parts where its first part is, and a child redeclared there once per
  redeclaration.
- Operator methods are not wrappable (`MethodDeclaration::isWrappable`), so the
  operator check of `translateMethod` cannot fire and has no action.
- A reference type is wrappable whenever references are allowed, whatever its
  pointee; a typedef that is not wrappable falls back to its target when it is
  used by value or by reference, not behind a pointer.
- A record with strategy `REPLACE` is never registered; `CLASS` stands for
  `CLASS` and `OPAQUE_CLASS`, for which `translateType` and `buildRecord` throw.

`WellFormed` says what clang guarantees of a program (one parent per
declaration, complete bases, fields only in records, and so on). It is part of
the assumption `TranslatorAssumption` that TLC evaluates and the proofs use.
One kind of program is left out: a member that is declared again out of its
class is free as well (see `Traversal`), and here a declaration is either free or has
a parent.

### Fairness

`WF_vars(Next)`: the program has one thread and calls no blocking operation
between `populateDAST`'s first and last line, so an enabled step is taken. The
liveness property is `Termination`.

### Runs

| run | question |
|---|---|
| `translator` | seven invariants over the seven families of programs of `MCTranslator`; does the pass end, and does it implement `Bindings`? |
| `missing_fields` | a statement of the design document that the code violates |

`MCTranslator` has 20 declarations; every program uses a few of them. The seven
families vary what the code branches on: the order of the free declarations,
forms of use, flags (not wrappable, not emitted, only declared, virtual,
static, operator, overriding), strategies of records and of their bases,
reopened namespaces, nested records, unions, typedef chains; one has namespaces
three deep of which the outermost is reopened, so that what is inside is walked
again though nothing near it is listed twice; one walks a class or union with a
static member twice. Each family has
at least two declarations that refer to each other in both orders, which is
what the interesting cases need; more declarations repeat them. Every action
and every disjunct of `Next` is taken in the run `translator` (4,925 programs,
about 119,000 states). Deadlock checking is off because the pass ends.

### What the runs show

The invariants hold: a node is placed once (`PlacedOnce`), under its namespace
or in its type, and in no second place (`OneHome`), in source order, which
includes the members of a type that is walked once (`SourceOrder`); it is
filled, except for two kinds of nodes that `PlacedMeansFilled` names exactly; no
node that should be emitted is forgotten, and the pass is stopped by nothing
but a union with a static or nested member that should be emitted or has a
node already, which reaches an `assert(0)` (`NothingLost`); the members of a type are complete (`MembersComplete`).

`SourceOrder` speaks of types walked once, that is, listed once with everything
around them and in them, because of something else the code does: a record that is forward declared and then defined in a namespace, or a
nested record declared before its definition, gets its members twice, although
the comment at `translate/decls.d:374` says that this is taken care of. In that
second walk a static member whose type threw in the first counts as a field
(`PerObject`): a struct or union takes it as one, an interface refuses it.

One statement of the repository does not hold in a run of its own;
`PROJECT.json` quotes it under "findings": a struct referred to before it is
visited is placed without its members.
`struct S; struct T { S *t; }; struct S { T s; };`

One exception that `PlacedMeansFilled` names is worth knowing, too: a function
of a namespace that cannot be translated and is declared twice is placed
without its arguments.

## `Bindings`

What a user of the pass may rely on: per declaration, a node is absent, then
bare or filled, never poorer again; a node is exported at most once, only after
it exists, and an export is never taken back (`Safe`); the pass ends. `Translator`
implements it under the mapping `Life`, `Exports`, `status = "running"`; the
part `Safe` is proved.

## `TypeTable`

The types of one C++ program are a graph (the variable `graph`, which never
changes): a type has a kind, at most one type it is built on (`Target`), a
sequence of others (`args`) and flags for what its declaration says of itself.
Types that share a declaration are one type here, and an alias or a class
template is represented by the type it declares.

`WellFormed` says what clang guarantees of such a graph. Two facts of it are
about chains: typedefs and qualified types do not stand for each other in a
circle, and nothing points or refers to a reference or to a typedef of one
(`ReferenceTypes`), as C++ has no such pointer and `getPointeeType`, which the
code asks, collapses a reference to a reference.

| state | code |
|---|---|
| `strategy`, `named` | `Type::strategy`, and whether `Type::target_name` is empty |
| `phase` | whether `parseAndApplyConfiguration` is still running; `"overflow"` when the stack is used up |
| `deciding` | the calls of `determineStrategy` in progress |
| `configured` | history: what the configuration said; no guard but the bound reads it |

| actions | code |
|---|---|
| `ConfigureReplace`, `ConfigureStrategy` | `applyConfigToObject`, `Type::applyAttributes`; the last entry for a type wins |
| `Ask` | a call of `determineStrategy` from outside |
| `ChooseReplace`, `ChooseForRecord`, `ChooseForTemplate`, `ChooseForSpecialization` | the visit methods that need no other call |
| `Descend`, `ChooseAsTarget` | the visit methods that decide another type first, before and after that call |
| `RunOutOfStack` | the same call again: nothing records that it is in progress, so it recurs for ever |
| `Reject` | an exception, which leaves all calls in progress |

`Wrappable[n]` is the set of the types that `isWrappable` says yes to within
`n` nested calls, with and without references allowed; a cycle is in none of
them, as the flag `wrapping` of `DelayedType` makes it answer no. `Askable` states which types the translation
asks about: wrappable ones, and what a wrappable pointer, reference or array
is to. `TypeTranslator` is checked to ask about no others (`UsesTheTable`).

Checked (`type_table`): templates and their specializations settle on a
strategy that no later choice changes (`TemplatesSettled`), strategies stick
but for configured templates (`DecisionsStick`), and no choice wipes a
configured name (`NamesSurvive`). The nested calls are what they should be
(`CallsWait`, which is proved and therefore not in the run). The exception in
`DecisionsStick` is real: a strategy configured for a class template is
overwritten by the first specialization that is met.

The graphs have seven types, in three families (templates, dependent names,
alias templates and the remaining kinds), 144 graphs together. Seven is what
the longest chain needs: a template, two explicit specializations, two
specialization types of which one is an argument of the other, a pointer and
an argument. `MaxConfigured` bounds how many types the configuration mentions,
one at a time being what can disagree with the choice for another.

No liveness is stated here: nothing makes the program ask, and that what it
asks is answered is `Ends` of `TypeTranslator`.

## `TypeTranslator`

`translateType` and the functions it calls, as a stack of calls (`frames`)
over the variables of `TypeTable`, whose actions are its subroutine
`determineStrategy`: while `deciding` is not empty the call on top waits.

| state | code |
|---|---|
| `memo` | `translated_types`; a D type is what wraps it, the class of the node inside and the C++ type that one stands for |
| `registered` | the nodes of `translated` (`translate/decls.d:37`) that belong to types |
| `frames`, `result` | the calls in progress and what the last one returned |
| `asked`, `retried`, `outcome` | the caller: the type it needs, whether it tries again without the reference, what came of it |

| actions | code |
|---|---|
| `AskType`, `RetryWithoutReference` | `translateArgument` and the other callers that catch a `RefTypeException` |
| `VisitDeclaration`, `VisitUndecided` | `buildRecord` and the other visitors, when the pass reaches a declaration between two types |
| `MemoHit` ... `FailOnKind` | `translateType` up to its switch, and the first lines of `replaceType` and `resolveOrDefer` |
| `DecideTarget` ... `TranslateTarget` | `translatePointerOrReference`, `replaceArray` |
| `TranslateUnqualified`, `TranslatePart`, `FunctionEnd` | `resolveOrDeferType` of a qualified type, `replaceFunction` |
| `ResolveTarget`, `RejectDeclaration`, `ResolveDeclaration` | `resolveOrDefer` and `startDeclTypeBuild` |
| `ReplaceSpecialization`, `TranslateArgument`, `SpecializationEnd` | specializations of templates |
| `ReplaceBacking`, `TranslateBackingStruct`, `FailOnDelayed` | dependent names |

An exception goes through every frame (`Unwind`): the only handler inside,
that of `replaceFunction`, always throws it again. Errors, failed assertions
and C++ exceptions stop the program (`Abort`).

The run `type_translator` has every graph of `MCTypeTranslator` (five
families, 109 graphs of six types) without a configuration, and a quarter of
them (`ConfiguredGraphs`, cut by the constraint `FewConfigured`) with every
configuration of one type: a configuration multiplies the states by about ten.
Every order of asking for types and visiting declarations is explored, and
every action is taken (about 227,000 states). The constraint cuts whole
programs off before the first type is asked for, so it hides no behaviour of
those that are left. What the run shows: a type keeps its pointers but for those to classes and functions
(`IndirectionKept`); nodes agree with the strategies that pointers were
decided by (`NodeMatchesStrategy`); without a configuration the program stops
only where the code says something is not written yet
(`FailsOnlyIfConfigured`, which names the configurations that make it stop);
and every theorem about `TypeTable` applies (`UsesTheTable`). `Ends` says that
translating a type ends, and so does choosing a strategy, although nothing
marks a call in progress: of the dependent names that stand for each other in
a circle (the family `CircularGraphs`) `isWrappable` refuses all but one use.
A reference is wrappable whatever it refers to (`cpp_type.hpp:408`), so
`determineStrategy` is called for the target of a reference to such a name
(`types.d:341`) and follows the circle (`types.d:147`) until the stack is
exhausted; `Ends` says that this is the only way to exhaust it. One statement,
of a test, does not hold (`const_kept`): the memo ignores the qualifiers
already applied, so `const int *` loses its const if `const int * const` came
first.

Fairness: `WF` of a step of the call in progress; the program has one thread
and no call in it blocks, so a call that can go on does. Nothing makes the
program ask for another type.

## `Traversal`

The first pass over one syntax tree of clang (the variable `prog`, which never
changes). A declaration of clang has a kind, a canonical declaration, and the
declarations visited on its behalf (`parts`), in clang's order; a `Declaration`
object is identified with the clang declaration it was made from.

| state | code |
|---|---|
| `visitors` | the `DeclVisitor` objects on the stack, with `top_level_decls` and the position of the loop |
| `declarations`, `free` | `DeclVisitor::declarations`, `DeclVisitor::free_declarations` |
| `lists` | `allTemplateParameterLists` of a template |
| `emit` | the objects with `should_emit` |
| `visited` | history: what a visitor got to; no guard reads it |

| actions | code |
|---|---|
| `Allocate` | the `WalkUpFrom...` and `Visit...` functions that call `allocateDeclaration`, with the insertion into `free_declarations` |
| `EnterContext` | a translation unit or a linkage specification, for which no object is made |
| `Terminate` | `WalkUpFromDecl`, whose exception no visitor of a namespace alias or the like catches |
| `SkipPart`, `VisitPart`, `EndVisitor` | `registerDeclaration` and `TraverseDecl`: known already, a new visitor, and the end of one |
| `EnableDeclarationsInFiles` | `FilenameVisitor` over the whole table, in one step: its order makes no difference to a set |

Checked (`traversal`): one object per entity, found through every redeclaration
(`OneObject`); whatever the translation reads of an object has been visited, the
definition of a class as well as every reopening of a namespace
(`ContentsKnown`), with one exception, a specialization of a template that is
declared again after its definition (`Shadowed`); roots are free whatever way
they were met (`RootsAreFree`); a free declaration that encloses another sorts
before it (`EnclosingFirst`); what is emitted does not depend on the
redeclaration the object was made from (`EmittedWhereDefined`).

`EnclosingFirst` has three exceptions. Two are of specializations, which a template
hands out by their latest declaration. One that is met after its definition that
way is sorted by the later place, behind members that are free (`MadeLate`). And
what a specialization declares that was never looked into has its object from a
redeclaration elsewhere, but is a member of the declaration passed over
(`PassedOver`): a member template of a specialization is one. The third is of C
linkage: functions or variables of one name in different namespaces are one
entity, so that the namespace may come after its member (`DeclaredBefore`; the
declaration of `std` that clang adds, which stands nowhere, does not count). Without
any one of them TLC finds a counterexample: among the trees with three
declarations of one specialization, and among those with linkage specifications.

`MCTraversal` has 902 syntax trees in five families: records with members
defined outside and friends, in every order of five root declarations; class
templates with a specialization; a specialization declared three times, with a
member template that is redeclared outside; a function or variable with C linkage,
in a namespace and out of it; namespaces, linkage specifications,
alias templates, unions, enums and builtin typedefs. Two declarations of an
entity, in both orders, and one declaration in between are what the hazards need,
and each family has several such pairs (35,118 states, every action taken).
Deadlock checking is off because the pass ends.

What C++ and clang guarantee of a tree is in `WellFormed`, and TLC checks every
tree against it. A declaration stands in one place, specializations apart
(`OnePlace`). In a translation unit, namespace or linkage specification what comes
later in the order of visits is later in the source, and what stands in a
namespace is within its extent (`InOrderOfSource`); the one freedom is a tag that a
declarator names, `void f(struct s * p)`, which clang enters before the function.
Where a class is declared and not defined, it is defined in a namespace, or next
to that declaration, or it is the class of a template (`DefinitionsReached`).

One statement of the repository does not hold: a union or enum that is declared
before it is defined is read through its first declaration, and has no members
(`members_captured`). The free declarations, too, are not what their name in
the code says: members defined outside their class, and the typedef in an alias
template, are among them.

## `Configuration` and `Driver`

`Driver` is the whole program on one input: the command line, the response
file, the configuration files, and what clang makes of the headers. It extends
`Configuration`, the two passes over the configuration files. The first pass
over the headers and the translation are one step each here; what they do is
`Traversal` and `Translator`, and of the translation all outcomes are possible.

| state | code |
|---|---|
| `argv`, `cur_arg_idx`, `args`, `setOutputModule`, `setOutputDirectory` | the variables of `parse_args` |
| `phase`, `exit` | how far `main` is, and how the program ended: `"error"` is the -1 that `main` returns, `"uncaught"` an exception of D, `"aborted"` one of C++, or a null pointer |
| `clang_args` | the result of `parseClangArgs` |
| `files`, `file`, `entries`, `entry`, `decls`, `types` | the loops over files, entries and what a name was looked up to |
| `emit`, `decl_attributes`, `type_attributes` | what `applyAttributes` sets on declarations and types |
| `output` | the file that is written |

| actions | code |
|---|---|
| `ExpandResponse` ... `ArgumentsEnd` | `parse_args` |
| `ParseClangArgs`, `ClangArgsError`, `ClangArgsEnd` | `parseClangArgs` and `applyRootObjectForClang` |
| `BuildAST`, `Enable` | `buildAST`, `traverseDeclsInAST`, `enableDeclarationsInFiles` |
| `OpenFile`, `FileError` | `applyRootObjectForAttributes` |
| `LookUp`, `EntryError`, `LookupError` | one entry: `parseAttributes`, then `lookupDeclName` and `Type::getByName` |
| `SkipDeclaration`, `ApplyToDeclaration`, `UnusedTypedef`, `ApplyToType` | the loops of `applyConfigToObject` |
| `Populate`, `OpenOutput`, `WriteOutput` | `populateDAST`, `visitModule` |

The entries of a file are an associative array of D, so `LookUp` takes any of
those that are left. A JSON value is what the program tells apart of it; the
errors of an entry are a set, of which any may be thrown, because its
attributes are an associative array as well. That a file says the same when it
is read again is assumed.

Checked (`driver`): the parser accounts for every argument
(`ArgumentsAccounted`); a failure that `main` reports leaves no file, success
means that it is complete, and the file, which opening truncates, is opened
only if there were headers, clang could read them and nothing in any entry of
any configuration file was wrong (`ExitTellsOutput`; an exception while
writing, or an operand that the translation left null, leaves a part of it);
the attributes of declarations (`DeclarationsFollowFiles`) and types
(`TypesFollowFiles`) follow from the order of the files alone.
`TypesFollowFiles` states where that is not so: two
entries of one file for a type, a variable of it included, and an enum or
typedef configured in the same file as the builtin type it needs. An entry for
a variable changes its type for all its other uses, which a comment at the loop
of `applyConfigToObject` denies.

`MCDriver` has 2,016 inputs: every command line of up to three arguments
(three are enough for an option to be the value of another, and for a repeated
option there are longer ones), with three response files; pairs of
configuration files with one or two entries in one of them and one in the
other, of three forms, over an `int`, a variable and a typedef of it and an
overloaded function; and files with each of the errors (53,574 states, every
action taken). Deadlock checking is off because the program ends. Nothing is
assumed of fairness, and no liveness is stated: every loop counts something
down.

## `TypeMap`

How the `Type` objects come into being: `Type::get` looks a clang type up in
`type_map`, and has `ClangTypeVisitor` traverse it if it is not there. This is
one recursion over types that refer to each other, with many ways through it:
most kinds of types get an object and a new visitor for their part, some parts
are traversed by the same visitor, some kinds share the object of another type,
and some only record that they are not wrapped and make every traversal that
they are part of fail, up to the next `Type::get`.

| state | code |
|---|---|
| `type_map` | `Type::type_map`; an object is named after the type it was made for |
| `frames` | the calls of `TraverseType` in progress: the type, how it was called, the visitor's `type_in_progress` (only whether it is set) and `printPolicy`, the parts that are left, what it is going to return |
| `traversed` | the declarations of records and template parameters that `DeclVisitor` has been through |
| `requested`, `reached` | the types that the first pass has asked for, and those that the translation has got to |

| actions | code |
|---|---|
| `Request`, `Reach` | `DeclVisitor::TraverseType` for the declarations in order; the getters, from a type to its parts, in any order after that |
| `KnownPart`, `UnknownPart`, `NullPart` | the lookup, and the call of `TraverseType` on a part, with a new visitor or the same |
| `Alias`, `AliasOfUnmapped` | `WalkUpFromElaboratedType`, `WalkUpFromParenType` and the like |
| `SkipPart`, `ReturnToVisitor`, `ReturnFromGet` | a traversal that has failed, and the two ways to return |

The body of each `TraverseFooType`, with its `WalkUpFrom` and `Visit`, is the
sequence `Todo`; the order of its steps is that of clang's macros.

Checked (`type_map`): `Type::get` always finds what it had traversed
(`AlwaysPlaced`), although it discards what the traversal returned; cycles do
not make the recursion endless (`NoOverflow`); the iterators that are used
without a comparison are the end of the map only where a record itself is in
parentheses or behind `decltype` (`EndOnlyAtRecords`); and what a getter asks
for is in the map when the translation begins (`ComponentsMapped`): the getters
have no printing policy, without which a builtin type stops the program at an
assertion. `ComponentsMapped` names the exceptions; one of them does stop it,
the arguments after a failed one, as in `V<int &&(), long>`; `Spoiled` is the
least set of types that such a failure reaches. Another thing met
while translating: the comment in `Type::get` that what it handles of
qualifiers is to be handled in `Type::unqualifiedType` as well is not followed
for `restrict`.

`MCTypeMap` has 6,057 programs of six types: an outer and an inner kind of all
kinds that behave differently, around a record with fields, a template
parameter, or another innermost type, with parts, and asked for in two orders
(81,453 states, every action taken). Two levels are what it takes for a kind to
be traversed by the same visitor as the one around it, with an object in
progress and without. `MaxDepth` is 127, just more than the bound that the
proof gives for six types (`NoOverflowWithRoom`): a recursion that ran out of
it would be one without end. `WellFormed` assumes of clang that a type which
merely stands for another (sugar, and the kinds the visitor does not know) does
not stand for itself by way of others; cycles through records, pointers and
the like are what the properties are about.

## `NameResolver`

How the `X` in `A<T>::X` is looked up. A `NestedNameResolver` is a recursive
visitor that stops at its first result; for a path, `A<T>::X::Y`, a resolver
for `X` makes a resolver for `Y`, and all of them pop their names from one stack.

| state | code |
|---|---|
| `program`, `query` | the graph of types and declarations, and the name; never change |
| `path` | `identifier_path` |
| `resolvers` | the `NestedNameResolver` objects, each with its name, `template_args`, result and the nodes it has yet to traverse |
| `outcome`, `answer` | how the call ended |

The actions have the names of the visit methods; `WalkUpFromCXXRecordDecl` is
the six actions `LookInBases` ... `FollowPath`, one per outcome of clang's
lookup in the class. `InnerNameResolver`, `IdentifierPathResolver` and
`InnerDeclResolver` are what the operator `Inner` selects.

Checked (`name_resolver`) against two definitions of lookup over the same graph
(`AnswerFollowsLookup`). `CxxAnswers` is what C++ finds: it looks through alias
templates and through the name of a class inside the class, which clang adds as
an implicit declaration. An answer is always one of these. The converse does not
hold: `RecursiveASTVisitor` skips implicit declarations, so a
`typename D<T>::B` that names the base `B` of `D<T>` by the name that `B` has
inside itself gets null, and so does a name of an alias template, as the comment
at `nested_name_resolver.hpp:173-178` admits; in both C++ finds a type
(`isWrappable` then rejects what uses it). Null means that there is nothing in
`Answers`, the lookup without these two ways. The exceptions
are paths to a value, which are never followed, and names that the search finds
in two bases, or in one that is inherited twice (`Ambiguous`): the attempt in the
first base has popped names that the attempt in the second lacks. For a class
that is inherited along two paths C++ has an answer, and the resolver can still
end without one, or with something that the path does not name. Only a class that
inherits from itself, as the pattern of `A<N> : A<N - 1>` does, exhausts the stack
(`OverflowByInheritance`).

`MCNameResolver` has 403 graphs over 25 nodes and five names to look up in
each, with paths of up to three identifiers and nine queries in all (32,407
states, every action taken): two bases, a base that is inherited twice, hiding,
typedefs that lead to each kind of type, an alias template as a base, a class's
own name found in it and in its base, unresolved and unknown kinds.
`MaxDepth` bounds the nesting of calls. It is 151, just more than the bound that
the proof gives for 25 nodes and three names (`OverflowByInheritanceWithRoom`),
so that what runs out of it has no end. `WellFormed` assumes of clang that a
typedef or an elaborated type does not stand for itself by way of others; a class
that inherits from itself is what the property is about.

## `Expressions`

Template arguments, default values and array lengths that are expressions. The
three stages are functions over one tree: `Wrapper` and `Operands` (which
clang class becomes which wrapper), the visits of `ExpressionTranslator` as
actions (`Visit`, `VisitFails`, `VisitReturns`, with the calls in progress in
`calls` and `ExpressionTranslator.result` in `result`), and `Prints`
(`buildConcreteExpression`). `TranslateExpression` and `TranslationFailure`
are the ends of `translateExpression` and its caller's `catch`. `translated` is
the part of the table `translated` that references see: a visit starts a node
for the declaration that a reference names.

Checked (`expressions`): exactly the expressions for which D output exists,
seen from clang's tree alone, are printed (`PrintedExactly`). `defaults_left_out`
shows that a default value with an untranslatable operand is not left out, as
the comment at `translate/decls.d:1009` says: the visit of a unary operator
leaves null, only the outermost caller looks for that, and the tree with the
hole stops the program when it is printed.

`MCExpressions` has the trees of up to three nodes over every kind of
expression and of reference, and some of four and five (9,628 states, every
action taken). Three nodes are a hole below an operator that survives below
another one.

## Proofs

`TranslatorProofs` proves, for every value of the constants that satisfies
`TranslatorAssumption`:

- `TypeCorrect`: `Spec => []TypeOK`. The inductive invariant is `TypeInv`, the
  type invariant with `prog \in Programs`: the types of bases, uses and children
  come from the assumption on programs (`ProgramFacts`). One lemma per group of
  actions, on top of lemmas on what `Return`, `Push`, `Step`, `Register`,
  `StartDeclTypeBuild` and the placement do to the types.
- `PlacedOnceCorrect`: `Spec => []PlacedOnce`. Every step leaves `emitted` alone
  or places one declaration (`EmittedSteps`), and placing preserves the agreement
  between table and output (`PlacedOnceStep`).
- `OneHomeCorrect`: `Spec => []OneHome`. `OneHome` speaks of the output only, so
  the invariant adds how the visitors in progress nest (`CallsNest`: each is for
  the child that the one below it has just taken) and that those called by a
  namespace work under the path around their declaration (`FramesAtHome`). The
  lemma `StackSteps` says in six cases what any step does to the stack; the
  later proofs use it in place of the actions.
- `PlacedMeansFilledCorrect`: `Spec => []PlacedMeansFilled`. The invariant
  `Table` relates the table of nodes to the stack: a node has the class its
  visitor asks for (`Sane`), what `populateDAST` has not reached was only
  referred to (`FreeFresh`), and every node was referred to or belongs to a
  visitor that is at work, has ended or threw (`Tried`).
- `NothingLostCorrect`: `Spec => []NothingLost`. The invariant `Fate` says of
  every free declaration before `next`, and of every child of such a namespace
  before the loop index of its visitor, that it is placed, threw or never gets a
  node (`Settled`); the one visitor at the bottom of the stack is the exception
  until it returns (`Ahead`).
- `SourceOrderCorrect`: `Spec => []SourceOrder`. What could break the order is a
  body that is walked twice. `Walked` says that there is a set of declarations,
  those visited so far, that holds what is on the stack, what has a node that was
  not merely referred to, and what has members; and that every loop, of
  `populateDAST` and of the visitors on the stack, is past each of them that is
  listed once with everything around it (`Lone`, `Behind`). So a visitor that
  starts on such a declaration is the first. A new member then is the child that
  the loop is at, and those before it are at smaller indices (`MembersSorted`);
  the same for the output and the loop of `populateDAST` (`FreeSorted`).
- `MembersCompleteCorrect`: `Spec => []MembersComplete`. `BodiesTaken` says of
  every body in progress, as long as the pass runs, that each child before its
  index is a member, threw, or is one of those that never get a node, the fields
  of an interface among them (`FieldsNever`); one child may be on its way, with
  its visitor on the stack. The visitor's end is the state to look at: `Left`
  lists all ways to leave one, and is what `NothingLostCorrect` uses, too. That
  hidden members were referred to (`HiddenMembers`) follows from `Walked`.
- `BindingsSafe` and `BindingsImplemented`: every step maps to a step of
  `Bindings` or to a stutter, given `Table`; that the pass ends is the checked
  property `Termination`, and with it the pass implements all of `Bindings`.

`TypeTranslatorProofs` proves of `TypeTable`, for every finite set of types and every set of well
formed graphs (`TypeTableAssumption`):

- `TypeCorrect`: `Spec => []TypeOK`.
- `CallsWaitCorrect`: `Spec => []CallsWait`, inductive together with `TypeOK`;
  the calls in progress stay distinct because `Descend` asks for a type that is
  not among them, and undecided because only the top one is decided.
- `TemplatesSettledCorrect`: `Spec => []TemplatesSettled`. A choice for a
  record gives it what `DecidedRecord` already said of it (`RecordsSettle`), so
  no template's `TemplateStrategy` changes (`TemplateSettles`); the proof turns
  on these two lemmas.
- `DecisionsStickCorrect`: `Spec => DecisionsStick`, an action property that
  follows from the three invariants.
- `NamesSurviveCorrect`: `Spec => NamesSurvive`, an action property: a type with
  a name has a strategy (`NamedDecided`), so that no call is made on it.

and of `TypeTranslator`, under the same assumption:

- `TransTypeCorrect`: `TransSpec => []TransTypeOK`.
- `UsesTheTableCorrect`: `TransSpec => UsesTheTable`, the refinement of
  `TypeTable`, which carries its theorems over. A step asks for a strategy only
  of types that `Askable` admits, for which the frames must be on types that
  are wrappable (`FramesFit`). That needs what `isWrappable` answers for a record
  and for what a wrappable name resolves to (`RecordWrappable`,
  `BackingWrappable`), by induction over the number of nested calls: one more
  takes no answer back (`MoreCallsMoreAnswers`).
- `NodeMatchesStrategyCorrect`: `TransSpec => []NodeMatchesStrategy`. What is in
  the memo or was returned is registered, registered nodes stay, and the
  strategy a node was made for stays chosen (`AllRegistered`, `NodesFollow`).
- `FailsOnlyIfConfiguredCorrect`: `TransSpec => []FailsOnlyIfConfigured`.
  `KindsFollow` says which kinds can have a strategy of records, `NamesFollow`
  when a dependent name has another than its target. That `isReferenceType` is
  never called too early needs `TargetsDecided`: a typedef or a qualified type is
  decided after what it stands for, unless it is configured. The call follows
  such a chain to its end, which is decided, too, and is neither a reference nor
  invalid; `DecidedAnswers` proves that it gets there, by the growing set of the
  types whose chains end within so many steps (`ChainSettles`).
- `IndirectionKeptCorrect`: `TransSpec => []IndirectionKept`. The property counts
  the pointers on the way from a type to what its D type is of, and the
  translation wraps them one call at a time, while the strategies that decide
  which pointers count are still being chosen. `Leads` says the same without
  counting steps: every set that holds the leaf, with no pointer, and with a type
  also those that stand for it, with one pointer more if they are an indirection
  that no later choice can change (`Firm`), holds the type with the pointers of
  its D type. So one more call extends it (`LeadsOn`), and a step of the table
  keeps it (`LeadsStay`), as `isReferenceType` never takes an answer back
  (`AnswersKept`). The invariant `Kept` states it of the memo and of the result on
  its way to the frame on top, across typedefs that are skipped (`Stands`), and
  says of each waiting frame that it will wrap a pointer just if its type is an
  indirection (`Waits`). That `Leads` gives the number which the property counts,
  though types may refer to each other in a circle, is `LeadsCounts`.

These five follow from one invariant, `TransInv`, that has these as its parts.

`TraversalProofs` proves, for every set of well formed syntax trees
(`TraversalAssumption`):

- `TypeCorrect`: `Spec => []TypeOK`, inductive as it stands.
- `OneObjectCorrect`: `Spec => []OneObject`, inductive together with `TypeOK`:
  `Allocate` enters an object for the declaration and for its canonical one; if
  the latter has an entry the former gets the same, and if it has none no
  declaration of the entity has one (`AllocateOneObject`).
- `RootsAreFreeCorrect` and `EmittedWhereDefinedCorrect`, from one invariant,
  `Walk`: each visitor on the stack has dealt with the parts before the one it
  has got to, and waits for the one above it (`Stacked`); what has an object was
  visited, or is the canonical declaration of what was (`Justified`); what was
  visited is part of something visited, and is walked through or has been
  (`Accounted`). When the stack is empty every part of everything visited has
  been dealt with (`AtEnd`).
- `ContentsKnownCorrect`, from `WalkInv`, which has all of the above as parts and
  three more. `Layered` compares the stack with the source: what a visitor further
  down has yet to visit is, if its place in the source says anything, behind what
  the visitors above are at. `Reached` says that a first declaration of an entity
  is known only if it was visited, of those kinds whose contents the translation
  looks for. It is what could fail: `allocateDeclaration` enters the canonical
  declaration unvisited, and `TraverseDecl` then skips it. It does not fail because
  the canonical declaration comes first in the source: if its namespace has been
  entered it was visited (`FoundBefore`, by the smallest line of what encloses it),
  and it is not within the entity itself (`NotInItself`), so it was met before any
  other (`FirstIsFound`). `Made` says that an object's list has the parameters of
  every declaration visited for it. At the end every namespace has been visited,
  whichever of its declarations was first (`AllScopesVisited`), so also the definition of
  whatever has one (`DefinitionVisited`).

`TypeMapProofs` proves, for every set of well formed programs
(`TypeMapAssumption`):

- `TypeCorrect`: `Spec => []TypeOK`.
- `GetFindsTheType`: `Spec => []AlwaysPlaced`. The invariant
  `IInv == TypeOK /\ Calls(frames, type_map) /\ AlwaysPlaced` says of every call
  in progress that its type is in the map already, or that it will be: the steps
  it has left enter it (`Placing`), and a call on top of it is for the part that
  it waits for (`Fits`). `AlwaysPlaced` alone is not inductive, as it says
  nothing of a call before it returns.
- `EndOnlyAtRecordsCorrect` and `ComponentsMappedCorrect`, from one invariant,
  `MapInv`: a call that fails is for a type of `Spoiled` (`Soured`), an alias is
  entered only after its type was asked for, and is then in the map or was to
  share an object (`Prepared`), and what a type in the map consists of is in the
  map or has yet to be visited by a call in progress (`Covered`).
- `NoOverflowWithRoom`: for a finite `QType` of size C, at most 3 C (C + 1) calls
  nest, so that `NoOverflow` holds if `MaxDepth` is larger. A call owns its type
  once the map has it through this call, and no two calls own one type
  (`OwnedOnce`). Two calls that agree in their type, in how many types are owned
  below them and in whether the object in progress can reach what they do
  (`CleanAbove`) would have nothing between them but types that stand for each
  other, in a circle (`DifferentPlaces`); the pigeonhole principle gives the
  bound. The proof is why `WellFormed` says that there are no such circles.

`NameResolverProofs` proves, for every set of well formed graphs
(`NameResolverAssumption`):

- `TypeCorrect`: `Spec => []TypeOK`. `TypeOK` is not inductive: `ReturnToOuter`
  takes the head off what the outer resolver has left, so `TypeInv` adds
  `Waiting`, that a resolver that waits has something left.
- `AnswerFollowsLookupCorrect`: `Spec => []AnswerFollowsLookup`, for paths of any
  length and class hierarchies of any depth. The difficulty is that the resolver
  walks one node at a time, while C++'s lookup is defined by recursion over
  classes. First, the recursions with as many steps as there are nodes are what
  they promise, the class of a type (`ClassOfIs`), what a name is in a class
  (`FindsIs`), where the search forks (`ForksIs`): the sets of nodes with an
  answer grow with the steps and settle (`ChainSettles`). The invariant
  `OnTheWay` then says, unless the query is `Ambiguous`: what is left of `path`
  goes with the resolvers on the stack (`Named`); no node that is yet to be
  visited is to lead to the name twice, so at most one of them leads to it at
  all (`NoneTwice`); and either what the innermost resolver has left finds
  exactly what the name is in the types that the names before it lead to
  (`Searching`), or there is no answer and it finds nothing (`Hopeless`), or its
  result is an answer (`Answered`). Every step replaces a node by nodes that find
  the same together (`ReplacedWay`); a result is right because nothing left
  behind it finds anything else (`ResultWay`), and a failure pops names that
  nobody will ask for (`ReturnWay`).
  What the lookup finds without alias templates and a class's own names is among
  what C++ finds (`AnswersWithin`).
- `OverflowByInheritanceWithRoom`: `Spec => []OverflowByInheritance` if `MaxDepth`
  is larger than 2 N L, for N nodes and paths of L names. The traversal of a node
  goes on with the nodes that come after it (`After`). What a class inherits from
  is closed under bases (`AncestorsClosed`), so a node that is, in any number of
  steps, ahead of itself is one of a circle of typedefs, which there are none of,
  or leads through a class that inherits from itself (`NeverAheadOfItself`). Where
  there is no such class the number of nodes ahead (`Measure`) gets smaller with
  every step, but for the step from a specialization type to its template, which
  comes back to the arguments of the type. The invariant `AllWithin` bounds how
  deep the calls for every node on a resolver's list can nest (`Reach`), for the
  k-th resolver of the stack by 2 N k; `NamesRemain` says that there are no more
  resolvers than names. The proof is why `WellFormed` excludes circles of typedefs.

`ExpressionsProofs` proves, for every set of well formed expression trees
(`ExpressionsAssumption`), in which parts may be shared or even contain each
other:

- `TypeCorrect`: `Spec => []TypeOK`.
- `PrintedExactlyCorrect`: `Spec => []PrintedExactly`. The expressions of which
  every part has a D form are a set that grows with the number of levels
  considered and settles (`Formed`). The invariant says that a result is the one
  that goes with its expression and that those of its operands are there
  (`ResultsFollow`), and that only formed expressions are visited if the root is
  one (`VisitsFormed`). A visit of a formed expression leaves neither hole nor
  exception (`FormedGoesWell`), and its wrapped expression is found in as many
  steps as the form has levels (`WrappedInTime`). So a formed root is printed
  (`FormedIsPrinted`), and what is printed is formed (`PrintedIsFormed`).

`DriverProofs` proves, for every set of inputs that satisfies `DriverAssumption`:

- `TypeCorrect`: `Spec => []TypeOK`. The types of attributes need `Applying`, that
  the entry in progress is one of the file and has no errors (`EntryFacts` says
  what follows for its values), and the index of `parse_args` needs `Beginning`,
  that a response file is read before any argument.
- `ArgumentsAccountedCorrect`: `Spec => []ArgumentsAccounted`, one lemma over the
  actions of `parse_args`.
- `ExitTellsOutputCorrect`: `Spec => []ExitTellsOutput`, inductive together with
  `Progress`, that a file is open in the last phase only, and `Checked`, which
  says phase by phase what has been found to be in order: the files that are not
  left in the loop, and of the one at hand the entries that are not left.
- `DeclarationsFollowFilesCorrect` and `TypesFollowFilesCorrect`, for any number
  of files and entries. The invariant `Following(k)` says what every attribute is
  in the middle of file `k`: as the last of the files before `k` that names the
  declaration says, or as `k` says if its entry has been applied. Nothing depends
  on the order inside the file because only one entry of it is for a declaration
  that `DeclarationsFollowFiles` speaks of, and what an entry needs of a type was
  given by an earlier file (`NamesFollow`).

`Induction` has the induction the other proofs use. The theorems of the library
take an operator, which the provers cannot instantiate; a property of the natural
numbers is a set here (`Induct`), a smallest number is picked from a set (`Least`), and
a function can be iterated (`Iterates`), so that functions which the modules
define by recursion exist (`Recursive`, `RecursiveByIndex`). Sets each made from
the one before by a monotone function, inside a finite set, settle in as many
steps as that has members (`ChainSettles`): a recursion with that many steps has
found everything there is to find.

Only model-checked, and why:

- liveness (`Termination`, `Ends`), which is out of the prover's reach;
- `EnclosingFirst` of `Traversal`: it rests on where members and specializations
  stand relative to every declaration of what encloses them, and on the fact that a
  specialization which is passed over hides all inside it. The trees of
  `MCTraversal` have these facts; `WellFormed` states only those that
  `ContentsKnown` needs.

## Not modelled

- clang itself and `clang_wrapper.cpp` (external), `string.cpp` (a copy of a
  string, whose contents nothing here depends on), `binder.d`, `unknown.d` and
  `manual_types.d` (mirrors of C++ classes for D, no logic).
- Templates, specialised records and expressions in the translation pass; the
  visibility attribute, linkage text and names of nodes. A parameter named in
  the type of a typedef or field is visited by the visitor of that declaration,
  which renames it (`cpp_decl.cpp:983`): names are abstracted, so nothing here
  speaks of it.
- In `NameResolver`, partial specializations, into which the code does not look
  either, and arguments put in place of the parameters of a template: the
  definition of C++'s lookup leaves them aside, too; in `TypeMap`, expressions and template arguments
  that are no types; in `Expressions`, the values of literals.
- How `std::sort` behaves when two locations are invalid, for which the
  comparison is no strict weak order (`cpp_decl.cpp:1380`).
- What clang finds for a name of the configuration: an input of `Driver`.
- `dlang_decls.d`, `log_controls.d`, and the formatter `dlang_output.d` calls:
  token construction, logging and layout.
