---------------------------- MODULE Configuration ----------------------------
(***************************************************************************)
(* The configuration files (configuration.d, configuration.cpp): each is   *)
(* read once for the arguments of clang, and a second time, when the first *)
(* pass has made the declarations and types, for their attributes.         *)
(*                                                                         *)
(* A JSON value is abstracted to what the program tells apart.  "absent"   *)
(* stands for a missing key, "other" for a value of the wrong type; other  *)
(* strings are Text, or NoText, which is also what attributes start with.  *)
(*                                                                         *)
(* A JSON object is an associative array of D, which is iterated in an     *)
(* unspecified order.  What a file says does not change between reads.     *)
(***************************************************************************)
EXTENDS Naturals, Sequences, FiniteSets

CONSTANTS
  Text,         \* the strings of arguments and files, NoText not among them
  NoText,       \* the empty string
  Name,         \* the names an entry may be for
  Declaration,  \* the Declaration objects
  NoDecl,       \* what getDeclaration returns for anything else
  Type,         \* the Type objects
  NoType,       \* the type of a function or a namespace
  Inputs        \* the inputs of the program to consider

String == Text \cup {NoText}

Visibility == {"private", "package", "protected", "public", "export"}
Strategy == { "UNKNOWN", "REPLACE", "STRUCT", "INTERFACE", "CLASS",
              "OPAQUE_CLASS" }

\* What the value of "strategy" is; extra are keys that nothing is done about.
StrategyValue ==
  [ form   : {"absent", "other", "object"},
    name   : Strategy \cup {"absent", "other"},   \* UNKNOWN: any other string
    d_decl : String \cup {"absent", "other"},
    extra  : BOOLEAN ]

\* An entry of "binding_attributes"; extra if it has an unknown attribute.
Entry ==
  [ form          : {"absent", "other", "object"},
    bound         : {"absent", "other", "0", "1", "2"},   \* 2: any other integer
    target_module : String \cup {"absent", "other"},
    visibility    : Visibility \cup {"absent", "other", "unknown"},
    remove_prefix : String \cup {"absent", "other"},
    strategy      : StrategyValue,
    extra         : BOOLEAN ]

\* A file: it cannot be read, is no JSON, no object, or has these keys.
Document ==
  [ form         : {"missing", "malformed", "other", "object"},
    extra        : BOOLEAN,
    args_form    : {"absent", "other", "array"},
    clang_args   : Seq(Text \cup {"other"}),
    entries_form : {"absent", "other", "object"},
    entries      : [Name -> Entry] ]

(***************************************************************************)
(* found:     what clang's lookup of a name returns, as getDeclaration has *)
(*            it for each                                                  *)
(* throws:    nested names with a scope that is not found, found more than *)
(*            once, or none                                                *)
(* byName:    Type::getByName                                              *)
(* type:      getType of a declaration                                     *)
(* unused:    typedefs that are not used, which have no type to get        *)
(* wrappable: the declarations with isWrappable, if the builtin types that *)
(*            they need (enums, typedefs) are wrappable                    *)
(* inFiles:   what enableDeclarationsInFiles enables                       *)
(* builds:    clang builds a syntax tree, and the traversal returns        *)
(***************************************************************************)
Source ==
  [ found     : [Name -> Seq(Declaration \cup {NoDecl})],
    throws    : SUBSET Name,
    byName    : [Name -> Seq(Type)],
    type      : [Declaration -> Type \cup {NoType}],
    unused    : SUBSET Declaration,
    wrappable : SUBSET Declaration,
    needs     : [Declaration -> SUBSET Type],
    inFiles   : SUBSET Declaration,
    builds    : BOOLEAN ]

Input ==
  [ argv      : Seq(Text),
    responses : [Text -> [form : {"missing", "read"}, tokens : Seq(Text)]],
    documents : [Text -> Document],
    source    : Source ]

VARIABLES
  input,            \* never changes
  phase,            \* what main is about to do
  exit,             \* how the program ended
  clang_args,
  files,            \* the configuration files left in this pass
  file,             \* the file whose entries are applied
  entries,          \* the names of its entries that are left
  entry,            \* the name of the entry that is applied
  decls,            \* the declarations it was looked up to that are left
  types,            \* the types it was looked up to that are left
  emit,             \* the declarations with should_emit
  decl_attributes,  \* target_module, visibility, remove_prefix
  type_attributes   \* strategy, target_name, target_module

configVars == << clang_args, files, file, entries, entry, decls, types, emit,
                 decl_attributes, type_attributes >>
applied == << emit, decl_attributes, type_attributes >>

source == input.source
DocumentOf(f) == input.documents[f]
EntryOf(f, n) == DocumentOf(f).entries[n]
Entries(f) == { n \in Name : EntryOf(f, n).form # "absent" }

(***************************************************************************)
(* How the program ends.  main catches a ConfigurationException and        *)
(* returns -1; what else is thrown in D ends it with 1; what is thrown in  *)
(* C++, a failed assert or a null pointer aborts it.                       *)
(***************************************************************************)
Stop(status) == phase' = "stopped" /\ exit' = status

ConfigInit ==
  /\ clang_args = << >>
  /\ files = << >> /\ file = NoText
  /\ entries = {} /\ entry = NoText
  /\ decls = << >> /\ types = << >>
  /\ emit = {}
  /\ decl_attributes =
       [ d \in Declaration |-> [ target_module |-> NoText,
                                 visibility    |-> "declared",
                                 remove_prefix |-> NoText ] ]
  /\ type_attributes =
       [ t \in Type |-> [ strategy      |-> "UNKNOWN",
                          target_name   |-> NoText,
                          target_module |-> NoText ] ]

-----------------------------------------------------------------------------
\* parseClangArgs.

\* The keys of applyRootObjectForClang are looked at in any order.
ClangErrors(doc) ==
  IF doc.form # "object" THEN {"uncaught"}
  ELSE IF \/ doc.extra
          \/ doc.args_form = "other"
          \/ \E i \in DOMAIN doc.clang_args : doc.clang_args[i] = "other"
         THEN {"error"}
         ELSE {}

ParseClangArgs ==
  /\ phase = "clang_args"
  /\ files # << >>
  /\ ClangErrors(DocumentOf(Head(files))) = {}
  /\ clang_args' = clang_args \o DocumentOf(Head(files)).clang_args
  /\ files' = Tail(files)
  /\ UNCHANGED << phase, exit, file, entries, entry, decls, types, applied >>

ClangArgsError ==
  /\ phase = "clang_args"
  /\ files # << >>
  /\ \E e \in ClangErrors(DocumentOf(Head(files))) : Stop(e)
  /\ UNCHANGED configVars

ClangArgsEnd ==
  /\ phase = "clang_args"
  /\ files = << >>
  /\ phase' = "build"
  /\ UNCHANGED << exit, configVars >>

-----------------------------------------------------------------------------
\* parseAttributes and readStrategyConfiguration.

Given(v) == v # "absent"

Keys(s) ==
  Cardinality({ k \in {"name", "d_decl"} : Given(s[k]) }) + (IF s.extra THEN 1 ELSE 0)

StrategyErrors(s) ==
  \/ s.form = "other"
  \/ s.name = "other"
  \/ s.d_decl = "other"
  \/ s.name = "REPLACE" /\ Keys(s) # 2
  \/ s.name = "REPLACE" /\ ~Given(s.d_decl)

\* Variant: an unknown visibility is passed over, as an unknown strategy is.
EntryErrorsLax(e) ==
  { k \in {"error", "uncaught"} :
      IF k = "uncaught" THEN e.form = "object" /\ e.bound = "2"
      ELSE \/ e.form = "other"
           \/ /\ e.form = "object"
              /\ \/ e.extra
                 \/ "other" \in {e.target_module, e.remove_prefix, e.visibility}
                 \/ e.bound = "other"
                 \/ StrategyErrors(e.strategy) }

\* Attributes are looked at in any order; to!bool throws a ConvException.
EntryErrors(e) ==
  { k \in {"error", "uncaught"} :
      IF k = "uncaught" THEN e.form = "object" /\ e.bound = "2"
      ELSE \/ e.form = "other"
           \/ /\ e.form = "object"
              /\ \/ e.extra
                 \/ "other" \in {e.target_module, e.remove_prefix, e.visibility}
                 \/ e.visibility = "unknown"
                 \/ e.bound = "other"
                 \/ StrategyErrors(e.strategy) }

ConfiguredStrategy(s) == IF Given(s.name) THEN s.name ELSE "UNKNOWN"
OrEmpty(v) == IF Given(v) THEN v ELSE NoText

-----------------------------------------------------------------------------
\* parseAndApplyConfiguration and applyConfigToObject.

Idle == entries = {} /\ decls = << >> /\ types = << >>

\* The root was found to be in order when the arguments of clang were read.
OpenFile ==
  /\ phase = "configure"
  /\ Idle
  /\ files # << >>
  /\ DocumentOf(Head(files)).entries_form # "other"
  /\ file' = Head(files)
  /\ files' = Tail(files)
  /\ entries' = Entries(Head(files))
  /\ UNCHANGED << phase, exit, clang_args, entry, decls, types, applied >>

FileError ==
  /\ phase = "configure"
  /\ Idle
  /\ files # << >>
  /\ DocumentOf(Head(files)).entries_form = "other"
  /\ Stop("error")
  /\ UNCHANGED configVars

\* The iteration gets to an entry.
AtEntry(n) ==
  /\ phase = "configure"
  /\ decls = << >> /\ types = << >>
  /\ n \in entries

EntryError ==
  \E n \in entries :
    /\ AtEntry(n)
    /\ \E e \in EntryErrors(EntryOf(file, n)) : Stop(e)
    /\ UNCHANGED configVars

LookupError ==
  \E n \in entries :
    /\ AtEntry(n)
    /\ EntryErrors(EntryOf(file, n)) = {}
    /\ n \in source.throws
    /\ Stop("aborted")
    /\ UNCHANGED configVars

\* Types are looked up by name only if there is no declaration.
LookUp ==
  \E n \in entries :
    /\ AtEntry(n)
    /\ EntryErrors(EntryOf(file, n)) = {}
    /\ n \notin source.throws
    /\ entry' = n
    /\ entries' = entries \ {n}
    /\ decls' = source.found[n]
    /\ types' = IF source.found[n] = << >> THEN source.byName[n] ELSE << >>
    /\ UNCHANGED << phase, exit, clang_args, files, file, applied >>

\* BuiltinType::isWrappable wants a replacement to have been given.
IsWrappable(d) ==
  /\ d \in source.wrappable
  /\ \A t \in source.needs[d] : type_attributes[t].target_name # NoText

\* Variant: a target module that the entry does not mention stays.
AppliedToTypeIfGiven(t) ==
  LET e == EntryOf(file, entry)
      s == ConfiguredStrategy(e.strategy)
      old == type_attributes[t]
  IN  [type_attributes EXCEPT ![t] =
        [ strategy      |-> IF s = "UNKNOWN" THEN old.strategy ELSE s,
          target_name   |-> IF s = "REPLACE" THEN OrEmpty(e.strategy.d_decl)
                            ELSE old.target_name,
          target_module |-> IF Given(e.target_module) THEN e.target_module
                            ELSE old.target_module ]]

\* Type::applyAttributes.
AppliedToType(t) ==
  LET e == EntryOf(file, entry)
      s == ConfiguredStrategy(e.strategy)
      old == type_attributes[t]
  IN  [type_attributes EXCEPT ![t] =
        [ strategy      |-> IF s = "UNKNOWN" THEN old.strategy ELSE s,
          target_name   |-> IF s = "REPLACE" THEN OrEmpty(e.strategy.d_decl)
                            ELSE old.target_name,
          target_module |-> OrEmpty(e.target_module) ]]

\* Variant: what an entry does not mention stays as it is.
AppliedToDeclIfGiven(d) ==
  LET e == EntryOf(file, entry)
      old == decl_attributes[d]
  IN  [ target_module |-> IF Given(e.target_module) THEN e.target_module
                          ELSE old.target_module,
        visibility    |-> IF Given(e.visibility) THEN e.visibility
                          ELSE old.visibility,
        remove_prefix |-> IF Given(e.remove_prefix) THEN e.remove_prefix
                          ELSE old.remove_prefix ]

\* Declaration::applyAttributes, but for should_emit.
AppliedToDecl(d) ==
  LET e == EntryOf(file, entry)
  IN  [ target_module |-> IF Given(e.target_module) THEN e.target_module
                          ELSE decl_attributes[d].target_module,
        visibility    |-> IF Given(e.visibility) THEN e.visibility ELSE "unset",
        remove_prefix |-> OrEmpty(e.remove_prefix) ]

\* should_emit.
EmitAfter(d) ==
  LET bound == EntryOf(file, entry).bound
  IN  IF bound = "1" THEN emit \cup {d} ELSE IF bound = "0" THEN emit \ {d} ELSE emit

AtDeclaration == phase = "configure" /\ decls # << >>

SkipDeclaration ==
  /\ AtDeclaration
  /\ Head(decls) = NoDecl
  /\ decls' = Tail(decls)
  /\ UNCHANGED << phase, exit, clang_args, files, file, entries, entry, types,
                  applied >>

ApplyToDeclaration ==
  /\ AtDeclaration
  /\ LET d == Head(decls) IN
       /\ d # NoDecl
       /\ ~(IsWrappable(d) /\ d \in source.unused)
       /\ emit' = EmitAfter(d)
       /\ decl_attributes' = [decl_attributes EXCEPT ![d] = AppliedToDecl(d)]
       /\ type_attributes' = IF IsWrappable(d) /\ source.type[d] # NoType
                               THEN AppliedToType(source.type[d])
                               ELSE type_attributes
  /\ decls' = Tail(decls)
  /\ UNCHANGED << phase, exit, clang_args, files, file, entries, entry, types >>

\* Type::get(NULL).
UnusedTypedef ==
  /\ AtDeclaration
  /\ Head(decls) # NoDecl
  /\ IsWrappable(Head(decls)) /\ Head(decls) \in source.unused
  /\ Stop("aborted")
  /\ UNCHANGED configVars

ApplyToType ==
  /\ phase = "configure"
  /\ types # << >>
  /\ type_attributes' = AppliedToType(Head(types))
  /\ types' = Tail(types)
  /\ UNCHANGED << phase, exit, clang_args, files, file, entries, entry, decls,
                  emit, decl_attributes >>

ConfigureEnd ==
  /\ phase = "configure"
  /\ Idle
  /\ files = << >>
  /\ phase' = "populate"
  /\ UNCHANGED << exit, configVars >>

Configure ==
  \/ ParseClangArgs \/ ClangArgsError \/ ClangArgsEnd
  \/ OpenFile \/ FileError \/ EntryError \/ LookupError \/ LookUp
  \/ SkipDeclaration \/ ApplyToDeclaration \/ UnusedTypedef \/ ApplyToType
  \/ ConfigureEnd
=============================================================================
