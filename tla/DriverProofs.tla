----------------------------- MODULE DriverProofs -----------------------------
(***************************************************************************)
(* Proofs about Driver, for all inputs: types, that the parser of the      *)
(* command line accounts for its arguments, that a failure that is         *)
(* reported leaves no file, and that the configuration files are followed  *)
(* whatever the order of their entries.                                    *)
(***************************************************************************)
EXTENDS Driver, SequenceTheorems, TLAPS

-----------------------------------------------------------------------------
\* What the input says.
LEMMA InputFacts ==
  ASSUME input \in Inputs
  PROVE  /\ input \in Input
         /\ input.argv \in Seq(Text)
         /\ \A t \in Text : /\ input.responses[t].tokens \in Seq(Text)
                            /\ DocumentOf(t) \in Document
         /\ source \in Source
<1>1. input \in Input
  BY DriverAssumption DEF WellFormed
<1> QED
  BY <1>1 DEF Input, DocumentOf, source

LEMMA DocumentFacts ==
  ASSUME input \in Inputs, NEW f \in Text
  PROVE  /\ \A n \in Name : EntryOf(f, n) \in Entry
         /\ Entries(f) \subseteq Name
         /\ ClangErrors(DocumentOf(f)) = {} =>
              DocumentOf(f).clang_args \in Seq(Text)
<1>1. DocumentOf(f) \in Document
  BY InputFacts
<1>2. \A n \in Name : EntryOf(f, n) \in Entry
  BY <1>1 DEF EntryOf, Document
<1>3. ASSUME ClangErrors(DocumentOf(f)) = {}
      PROVE  DocumentOf(f).clang_args \in Seq(Text)
  <2> DEFINE given == DocumentOf(f).clang_args
  <2>1. given \in Seq(Text \cup {"other"})
    BY <1>1 DEF Document
  <2>2. \A i \in DOMAIN given : given[i] # "other"
    BY <1>3 DEF ClangErrors
  <2>3. \A i \in 1 .. Len(given) : given[i] \in Text
    BY <2>1, <2>2
  <2> QED
    BY <2>1, <2>3
<1> QED
  BY <1>2, <1>3 DEF Entries

\* An entry without errors has values that can be applied.
LEMMA EntryFacts ==
  ASSUME NEW e \in Entry, e.form # "absent", EntryErrors(e) = {}
  PROVE  /\ Given(e.target_module) => e.target_module \in String
         /\ OrEmpty(e.target_module) \in String
         /\ OrEmpty(e.remove_prefix) \in String
         /\ Given(e.visibility) => e.visibility \in Visibility
         /\ ConfiguredStrategy(e.strategy) \in Strategy
         /\ OrEmpty(e.strategy.d_decl) \in String
<1>1. e.form = "object"
  <2>1. "error" \notin EntryErrors(e)
    OBVIOUS
  <2> QED
    BY <2>1 DEF EntryErrors, Entry
<1>2. /\ e.target_module # "other" /\ e.remove_prefix # "other"
      /\ e.visibility \notin {"other", "unknown"}
      /\ ~StrategyErrors(e.strategy)
  <2>1. "error" \notin EntryErrors(e)
    OBVIOUS
  <2> QED
    BY <1>1, <2>1 DEF EntryErrors
<1>3. e.strategy.name # "other" /\ e.strategy.d_decl # "other"
  BY <1>2 DEF StrategyErrors
<1>4. NoText \in String
  BY DEF String
<1> QED
  BY <1>2, <1>3, <1>4
     DEF Entry, StrategyValue, Given, OrEmpty, ConfiguredStrategy, Visibility, Strategy

-----------------------------------------------------------------------------
\* Whatever is being applied is an entry of the file, without errors.
Applying ==
  /\ entries # {} => file \in Text /\ entries \subseteq Entries(file)
  /\ decls # << >> \/ types # << >> =>
       /\ file \in Text
       /\ entry \in Entries(file)
       /\ EntryErrors(EntryOf(file, entry)) = {}


\* The parts of the type invariant.
ControlTypes ==
  /\ phase \in { "arguments", "options", "clang_args", "build", "enable",
                 "configure", "populate", "output", "stopped" }
  /\ exit \in {"running", "success", "error", "uncaught", "aborted"}
  /\ output \in {"none", "partial", "written"}

ArgumentTypes ==
  /\ argv \in Seq(Text)
  /\ cur_arg_idx \in 0 .. Len(argv)
  /\ args \in CLIArguments
  /\ setOutputModule \in BOOLEAN /\ setOutputDirectory \in BOOLEAN

LoopTypes ==
  /\ files \in Seq(Text) /\ file \in String
  /\ entries \subseteq Name /\ entry \in Name \cup {NoText}
  /\ decls \in Seq(Declaration \cup {NoDecl}) /\ types \in Seq(Type)

DeclAttributes ==
  [ target_module : String,
    visibility    : Visibility \cup {"declared", "unset"},
    remove_prefix : String ]

TypeAttributes ==
  [ strategy : Strategy, target_name : String, target_module : String ]

AppliedTypes ==
  /\ emit \subseteq Declaration
  /\ decl_attributes \in [Declaration -> DeclAttributes]
  /\ type_attributes \in [Type -> TypeAttributes]

LEMMA TypeParts ==
  TypeOK <=> /\ input \in Input
             /\ ControlTypes /\ ArgumentTypes /\ LoopTypes /\ AppliedTypes
             /\ clang_args \in Seq(Text)
BY DEF TypeOK, ControlTypes, ArgumentTypes, LoopTypes, AppliedTypes,
       DeclAttributes, TypeAttributes

\* The response file is read before the first argument is looked at.
Beginning == phase = "arguments" => cur_arg_idx = 0

LEMMA TypePartsNext ==
  ASSUME input' \in Input, ControlTypes', ArgumentTypes', LoopTypes', AppliedTypes',
         clang_args' \in Seq(Text)
  PROVE  TypeOK'
BY DEF TypeOK, ControlTypes, ArgumentTypes, LoopTypes, AppliedTypes,
       DeclAttributes, TypeAttributes

TypeInv == input \in Inputs /\ TypeOK /\ Applying /\ Beginning

LEMMA InitTypes == Init => TypeInv
<1> SUFFICES ASSUME Init PROVE TypeInv
  OBVIOUS
<1>1. input \in Inputs /\ input \in Input /\ input.argv \in Seq(Text)
  BY InputFacts DEF Init
<1>2. ControlTypes
  BY DEF Init, ControlTypes
<1>3. ArgumentTypes
  <2>1. argv \in Seq(Text) /\ cur_arg_idx = 0
    BY <1>1 DEF Init
  <2>2. cur_arg_idx \in 0 .. Len(argv)
    BY <2>1
  <2>3. args \in CLIArguments
    BY EmptySeq DEF Init, CLIArguments, String
  <2>4. setOutputModule \in BOOLEAN /\ setOutputDirectory \in BOOLEAN
    BY DEF Init
  <2> QED
    BY <2>1, <2>2, <2>3, <2>4 DEF ArgumentTypes
<1>4. LoopTypes
  BY EmptySeq DEF Init, ConfigInit, LoopTypes, String
<1>5. AppliedTypes
  BY DEF Init, ConfigInit, AppliedTypes, DeclAttributes, TypeAttributes, String,
         Strategy
<1>6. clang_args \in Seq(Text)
  BY EmptySeq DEF Init, ConfigInit
<1>7. Applying /\ Beginning
  BY DEF Init, ConfigInit, Applying, Beginning
<1> QED
  BY <1>1, <1>2, <1>3, <1>4, <1>5, <1>6, <1>7, TypeParts DEF TypeInv

\* The variables of a part change together.
LEMMA LoopsUnchanged ==
  ASSUME TypeInv, input' = input,
         UNCHANGED << file, entries, entry, decls, types >>
  PROVE  Applying'
BY DEF TypeInv, Applying, Entries, EntryOf, DocumentOf

LEMMA ConfigUnchanged ==
  ASSUME TypeInv, input' = input, UNCHANGED configVars
  PROVE  LoopTypes' /\ AppliedTypes' /\ clang_args' \in Seq(Text) /\ Applying'
<1>1. UNCHANGED << file, entries, entry, decls, types, files >>
  BY DEF configVars
<1>2. Applying'
  BY <1>1, LoopsUnchanged
<1>3. LoopTypes /\ AppliedTypes /\ clang_args \in Seq(Text)
  BY TypeParts DEF TypeInv
<1> QED
  BY <1>2, <1>3 DEF configVars, LoopTypes, AppliedTypes

LEMMA ArgumentsUnchanged ==
  ASSUME TypeInv, UNCHANGED argVars
  PROVE  ArgumentTypes'
<1>1. ArgumentTypes
  BY TypeParts DEF TypeInv
<1> QED
  BY <1>1 DEF argVars, ArgumentTypes

-----------------------------------------------------------------------------
\* The argument that is looked at, and the one after it.
LEMMA ArgFacts ==
  ASSUME TypeInv, AtArgument
  PROVE  /\ Arg \in Text
         /\ HasValue => OptionValue \in Text
         /\ cur_arg_idx + 1 \in 0 .. Len(argv)
         /\ HasValue => cur_arg_idx + 2 \in 0 .. Len(argv)
<1>1. argv \in Seq(Text) /\ cur_arg_idx \in 0 .. Len(argv) /\ Len(argv) \in Nat
  BY TypeParts DEF TypeInv, ArgumentTypes
<1>2. cur_arg_idx + 1 \in 1 .. Len(argv)
  BY <1>1 DEF AtArgument
<1>3. HasValue => cur_arg_idx + 2 \in 1 .. Len(argv)
  BY <1>1 DEF HasValue
<1> QED
  BY <1>1, <1>2, <1>3 DEF Arg, OptionValue

LEMMA ParseArgsTypes ==
  ASSUME TypeInv, ParseArgs, input' = input
  PROVE  ArgumentTypes' /\ ControlTypes'
<1>1. ArgumentTypes /\ ControlTypes
  BY TypeParts DEF TypeInv
<1>2. /\ argv \in Seq(Text) /\ Len(argv) \in Nat
      /\ args \in CLIArguments
      /\ args.config_files \in Seq(Text) /\ args.header_files \in Seq(Text)
  BY <1>1 DEF ArgumentTypes, CLIArguments
<1>3. CASE ExpandResponse
  <2>1. ControlTypes'
    BY <1>1, <1>3 DEF ExpandResponse, ControlTypes, Stop
  <2>2. argv' \in Seq(Text)
    <3>1. Response => argv[2] \in Text
      <4>1. ASSUME Response PROVE 2 \in 1 .. Len(argv)
        BY <1>2, <4>1 DEF Response
      <4> QED
        BY <1>2, <4>1
    <3>2. Response => input.responses[argv[2]].tokens \in Seq(Text)
      BY <3>1, InputFacts DEF TypeInv
    <3> QED
      BY <1>2, <1>3, <3>2 DEF ExpandResponse
  <2>3. cur_arg_idx' = 0
    BY <1>3 DEF ExpandResponse, TypeInv, Beginning
  <2>4. cur_arg_idx' \in 0 .. Len(argv')
    BY <2>2, <2>3
  <2> QED
    BY <1>1, <1>3, <2>1, <2>2, <2>4 DEF ExpandResponse, ArgumentTypes
<1>4. CASE ConfigFile
  <2>1. args' \in CLIArguments
    BY <1>2, <1>4, ArgFacts, AppendProperties DEF ConfigFile, CLIArguments
  <2> QED
    BY <1>1, <1>4, <2>1, ArgFacts DEF ConfigFile, ArgumentTypes, ControlTypes
<1>5. CASE Output
  <2>1. args' \in CLIArguments
    BY <1>2, <1>5, ArgFacts DEF Output, CLIArguments, String
  <2> QED
    BY <1>1, <1>5, <2>1, ArgFacts DEF Output, ArgumentTypes, ControlTypes
<1>6. CASE OutputDirectory
  <2>1. args' \in CLIArguments
    BY <1>2, <1>6, ArgFacts DEF OutputDirectory, CLIArguments, String
  <2> QED
    BY <1>1, <1>6, <2>1, ArgFacts DEF OutputDirectory, ArgumentTypes, ControlTypes
<1>7. CASE HeaderFile
  <2>1. args' \in CLIArguments
    BY <1>2, <1>7, ArgFacts, AppendProperties DEF HeaderFile, CLIArguments
  <2> QED
    BY <1>1, <1>7, <2>1, ArgFacts DEF HeaderFile, ArgumentTypes, ControlTypes
<1>8. CASE OptionError
  BY <1>1, <1>8, ArgumentsUnchanged DEF OptionError, ControlTypes, Stop
<1>9. CASE NoInput
  BY <1>1, <1>9, ArgumentsUnchanged DEF NoInput, ControlTypes, Stop
<1>10. CASE ArgumentsEnd
  BY <1>1, <1>10, ArgumentsUnchanged DEF ArgumentsEnd, ControlTypes
<1> QED
  BY <1>3, <1>4, <1>5, <1>6, <1>7, <1>8, <1>9, <1>10 DEF ParseArgs

\* Of the variables of the configuration, only the files are set.
LEMMA ParseArgsConfig ==
  ASSUME TypeInv, ParseArgs, input' = input
  PROVE  LoopTypes' /\ AppliedTypes' /\ clang_args' \in Seq(Text) /\ Applying'
<1>1. CASE UNCHANGED configVars
  BY <1>1, ConfigUnchanged
<1>2. CASE ArgumentsEnd
  <2>1. UNCHANGED << file, entries, entry, decls, types, clang_args, applied >>
    BY <1>2 DEF ArgumentsEnd
  <2>2. files' \in Seq(Text)
    BY <1>2, TypeParts DEF TypeInv, ArgumentsEnd, ArgumentTypes, CLIArguments
  <2>3. LoopTypes /\ AppliedTypes /\ clang_args \in Seq(Text)
    BY TypeParts DEF TypeInv
  <2>4. Applying'
    BY <2>1, LoopsUnchanged
  <2> QED
    BY <2>1, <2>2, <2>3, <2>4 DEF LoopTypes, AppliedTypes, applied
<1> QED
  BY <1>1, <1>2 DEF ParseArgs, ExpandResponse, ConfigFile, Output, OutputDirectory,
     HeaderFile, OptionError, NoInput

-----------------------------------------------------------------------------
\* The arguments of clang.
LEMMA ClangArgsTypes ==
  ASSUME TypeInv, ParseClangArgs, input' = input
  PROVE  LoopTypes' /\ AppliedTypes' /\ clang_args' \in Seq(Text) /\ Applying'
<1>1. LoopTypes /\ AppliedTypes /\ clang_args \in Seq(Text)
  BY TypeParts DEF TypeInv
<1>2. files \in Seq(Text) /\ files # << >>
  BY <1>1 DEF LoopTypes, ParseClangArgs
<1>3. Head(files) \in Text /\ Tail(files) \in Seq(Text)
  BY <1>2
<1>4. clang_args' \in Seq(Text)
  BY <1>1, <1>3, DocumentFacts, ConcatProperties DEF TypeInv, ParseClangArgs
<1>5. Applying'
  BY LoopsUnchanged DEF ParseClangArgs
<1> QED
  BY <1>1, <1>3, <1>4, <1>5 DEF ParseClangArgs, LoopTypes, AppliedTypes, applied

LEMMA OpenFileTypes ==
  ASSUME TypeInv, OpenFile, input' = input
  PROVE  LoopTypes' /\ AppliedTypes' /\ clang_args' \in Seq(Text) /\ Applying'
<1>1. LoopTypes /\ AppliedTypes /\ clang_args \in Seq(Text)
  BY TypeParts DEF TypeInv
<1>2. files \in Seq(Text) /\ files # << >>
  BY <1>1 DEF LoopTypes, OpenFile
<1>3. Head(files) \in Text /\ Tail(files) \in Seq(Text)
  BY <1>2
<1>4. Entries(Head(files)) \subseteq Name
  BY <1>3, DocumentFacts DEF TypeInv
<1>5. Applying'
  BY <1>3 DEF OpenFile, Idle, Applying, Entries, EntryOf, DocumentOf
<1> QED
  BY <1>1, <1>3, <1>4, <1>5 DEF OpenFile, LoopTypes, AppliedTypes, applied, String

\* A name is looked up in the source.
LEMMA LookUpTypes ==
  ASSUME TypeInv, LookUp, input' = input
  PROVE  LoopTypes' /\ AppliedTypes' /\ clang_args' \in Seq(Text) /\ Applying'
<1>1. LoopTypes /\ AppliedTypes /\ clang_args \in Seq(Text)
  BY TypeParts DEF TypeInv
<1>2. PICK n \in entries :
        /\ EntryErrors(EntryOf(file, n)) = {}
        /\ entry' = n
        /\ entries' = entries \ {n}
        /\ decls' = source.found[n]
        /\ types' = IF source.found[n] = << >> THEN source.byName[n] ELSE << >>
        /\ UNCHANGED << clang_args, files, file, applied >>
  BY DEF LookUp
<1>3. n \in Name /\ file \in Text /\ n \in Entries(file) /\ entries \subseteq Entries(file)
  BY <1>1, <1>2 DEF LoopTypes, TypeInv, Applying
<1>4. decls' \in Seq(Declaration \cup {NoDecl}) /\ types' \in Seq(Type)
  <2>1. source \in Source
    BY InputFacts DEF TypeInv
  <2>2. /\ source.found[n] \in Seq(Declaration \cup {NoDecl})
        /\ source.byName[n] \in Seq(Type)
    BY <1>3, <2>1 DEF Source
  <2> QED
    BY <1>2, <2>2, EmptySeq
<1>5. Applying'
  BY <1>2, <1>3 DEF Applying, Entries, EntryOf, DocumentOf
<1> QED
  BY <1>1, <1>2, <1>3, <1>4, <1>5 DEF LoopTypes, AppliedTypes, applied

\* What an entry gives to a declaration and to a type.
LEMMA EntryInProgress ==
  ASSUME TypeInv, decls # << >> \/ types # << >>
  PROVE  /\ EntryOf(file, entry) \in Entry
         /\ EntryOf(file, entry).form # "absent"
         /\ EntryErrors(EntryOf(file, entry)) = {}
BY DocumentFacts DEF TypeInv, Applying, Entries

LEMMA AppliedToTypeTypes ==
  ASSUME TypeInv, decls # << >> \/ types # << >>, NEW t \in Type
  PROVE  AppliedToType(t) \in [Type -> TypeAttributes]
<1> DEFINE e == EntryOf(file, entry)
           old == type_attributes[t]
           s == ConfiguredStrategy(e.strategy)
           new == [ strategy      |-> IF s = "UNKNOWN" THEN old.strategy ELSE s,
                    target_name   |-> IF s = "REPLACE" THEN OrEmpty(e.strategy.d_decl)
                                      ELSE old.target_name,
                    target_module |-> OrEmpty(e.target_module) ]
<1>1. type_attributes \in [Type -> TypeAttributes]
  BY TypeParts DEF TypeInv, AppliedTypes
<1>2. old \in TypeAttributes
  BY <1>1
<1>3. s \in Strategy /\ OrEmpty(e.strategy.d_decl) \in String
        /\ OrEmpty(e.target_module) \in String
  BY EntryInProgress, EntryFacts
<1>4. new \in TypeAttributes
  <2> HIDE DEF s, e, old
  <2> QED
    BY <1>2, <1>3 DEF TypeAttributes
<1>5. AppliedToType(t) = [type_attributes EXCEPT ![t] = new]
  BY DEF AppliedToType
<1> HIDE DEF new
<1> QED
  BY <1>1, <1>4, <1>5

LEMMA AppliedToDeclTypes ==
  ASSUME TypeInv, decls # << >>, NEW d \in Declaration
  PROVE  AppliedToDecl(d) \in DeclAttributes
<1> DEFINE e == EntryOf(file, entry)
<1>1. decl_attributes[d] \in DeclAttributes
  BY TypeParts DEF TypeInv, AppliedTypes
<1>2. /\ Given(e.target_module) => e.target_module \in String
      /\ OrEmpty(e.remove_prefix) \in String
      /\ Given(e.visibility) => e.visibility \in Visibility
  BY EntryInProgress, EntryFacts
<1> QED
  BY <1>1, <1>2 DEF AppliedToDecl, DeclAttributes

\* The entry is applied to a declaration or a type; the others wait.
LEMMA ApplyTypes ==
  ASSUME TypeInv, input' = input,
         \/ SkipDeclaration \/ ApplyToDeclaration \/ ApplyToType
  PROVE  LoopTypes' /\ AppliedTypes' /\ clang_args' \in Seq(Text) /\ Applying'
<1>1. LoopTypes /\ AppliedTypes /\ clang_args \in Seq(Text)
  BY TypeParts DEF TypeInv
<1>2. decls # << >> \/ types # << >>
  BY DEF SkipDeclaration, ApplyToDeclaration, ApplyToType, AtDeclaration
<1>3. Applying'
  BY <1>2 DEF SkipDeclaration, ApplyToDeclaration, ApplyToType, TypeInv, Applying,
     Entries, EntryOf, DocumentOf
<1>4. CASE SkipDeclaration
  <2>1. decls' \in Seq(Declaration \cup {NoDecl})
    BY <1>1, <1>4 DEF SkipDeclaration, AtDeclaration, LoopTypes
  <2> QED
    BY <1>1, <1>3, <1>4, <2>1 DEF SkipDeclaration, LoopTypes, AppliedTypes, applied
<1>5. CASE ApplyToDeclaration
  <2> DEFINE d == Head(decls)
  <2>1. decls \in Seq(Declaration \cup {NoDecl}) /\ decls # << >>
    BY <1>1, <1>5 DEF ApplyToDeclaration, AtDeclaration, LoopTypes
  <2>2. d \in Declaration /\ decls' \in Seq(Declaration \cup {NoDecl})
    BY <1>5, <2>1 DEF ApplyToDeclaration
  <2>3. emit' \subseteq Declaration
    BY <1>1, <1>5, <2>2 DEF ApplyToDeclaration, EmitAfter, AppliedTypes
  <2>4. decl_attributes' \in [Declaration -> DeclAttributes]
    <3>1. AppliedToDecl(d) \in DeclAttributes
      BY <2>1, <2>2, AppliedToDeclTypes
    <3> QED
      BY <1>1, <1>5, <3>1 DEF ApplyToDeclaration, AppliedTypes
  <2>5. type_attributes' \in [Type -> TypeAttributes]
    <3>1. source.type[d] \in Type \cup {NoType}
      BY <2>2, InputFacts DEF TypeInv, Source
    <3>2. source.type[d] # NoType =>
            AppliedToType(source.type[d]) \in [Type -> TypeAttributes]
      BY <2>1, <3>1, AppliedToTypeTypes
    <3> QED
      BY <1>1, <1>5, <3>2 DEF ApplyToDeclaration, AppliedTypes
  <2> QED
    BY <1>1, <1>3, <1>5, <2>2, <2>3, <2>4, <2>5
       DEF ApplyToDeclaration, LoopTypes, AppliedTypes
<1>6. CASE ApplyToType
  <2>1. types \in Seq(Type) /\ types # << >>
    BY <1>1, <1>6 DEF ApplyToType, LoopTypes
  <2>2. Head(types) \in Type /\ types' \in Seq(Type)
    BY <1>6, <2>1 DEF ApplyToType
  <2>3. type_attributes' \in [Type -> TypeAttributes]
    BY <1>6, <2>1, <2>2, AppliedToTypeTypes DEF ApplyToType
  <2> QED
    BY <1>1, <1>3, <1>6, <2>2, <2>3 DEF ApplyToType, LoopTypes, AppliedTypes
<1> QED
  BY <1>4, <1>5, <1>6

LEMMA ConfigureTypes ==
  ASSUME TypeInv, Configure, input' = input
  PROVE  LoopTypes' /\ AppliedTypes' /\ clang_args' \in Seq(Text) /\ Applying'
<1>1. CASE UNCHANGED configVars
  BY <1>1, ConfigUnchanged
<1> QED
  BY <1>1, ClangArgsTypes, OpenFileTypes, LookUpTypes, ApplyTypes
     DEF Configure, ClangArgsError, ClangArgsEnd, FileError, EntryError, LookupError,
         UnusedTypedef, ConfigureEnd

-----------------------------------------------------------------------------
\* How the program goes on and how it ends.
LEMMA ConfigureControl ==
  ASSUME TypeInv, Configure, UNCHANGED output
  PROVE  ControlTypes' /\ phase' # "arguments"
<1>1. ControlTypes
  BY TypeParts DEF TypeInv
<1>2. ClangErrors(DocumentOf(Head(files))) \subseteq {"error", "uncaught"}
  BY DEF ClangErrors
<1>3. \A n \in entries : EntryErrors(EntryOf(file, n)) \subseteq {"error", "uncaught"}
  BY DEF EntryErrors
<1>4. CASE ClangArgsError
  BY <1>1, <1>2, <1>4 DEF ClangArgsError, Stop, ControlTypes
<1>5. CASE EntryError
  BY <1>1, <1>3, <1>5 DEF EntryError, Stop, ControlTypes
<1>6. CASE FileError \/ LookupError \/ UnusedTypedef
  BY <1>1, <1>6 DEF FileError, LookupError, UnusedTypedef, Stop, ControlTypes
<1>7. CASE ClangArgsEnd \/ ConfigureEnd
  BY <1>1, <1>7 DEF ClangArgsEnd, ConfigureEnd, ControlTypes
<1>8. CASE ParseClangArgs \/ OpenFile \/ LookUp
  BY <1>1, <1>8 DEF ParseClangArgs, OpenFile, LookUp, AtEntry, ControlTypes
<1>9. CASE SkipDeclaration \/ ApplyToDeclaration \/ ApplyToType
  BY <1>1, <1>9 DEF SkipDeclaration, ApplyToDeclaration, ApplyToType, AtDeclaration,
     ControlTypes
<1> QED
  BY <1>4, <1>5, <1>6, <1>7, <1>8, <1>9 DEF Configure

LEMMA ParseArgsStarts ==
  ASSUME ParseArgs
  PROVE  phase' # "arguments"
BY DEF ParseArgs, ExpandResponse, ConfigFile, Output, OutputDirectory, HeaderFile,
   OptionError, NoInput, ArgumentsEnd, AtArgument, Stop

LEMMA NextTypes ==
  ASSUME TypeInv, Next
  PROVE  TypeInv'
<1>1. input' = input /\ input' \in Inputs /\ input' \in Input
  BY InputFacts DEF Next, TypeInv
<1>2. /\ ControlTypes /\ ArgumentTypes /\ LoopTypes /\ AppliedTypes
      /\ clang_args \in Seq(Text)
  BY TypeParts DEF TypeInv
<1>3. CASE ParseArgs
  <2>1. Beginning'
    BY <1>3, ParseArgsStarts DEF Beginning
  <2> QED
    BY <1>1, <1>3, <2>1, ParseArgsTypes, ParseArgsConfig, TypePartsNext DEF TypeInv
<1>4. CASE Configure /\ UNCHANGED << argVars, output >>
  <2>1. Beginning'
    BY <1>4, ConfigureControl DEF Beginning
  <2> QED
    BY <1>1, <1>4, <2>1, ArgumentsUnchanged, ConfigureTypes, ConfigureControl, TypePartsNext
       DEF TypeInv
<1>5. CASE BuildAST \/ Populate \/ OpenOutput \/ WriteOutput
  <2>1. UNCHANGED << argVars, configVars >>
    BY <1>5 DEF BuildAST, Populate, OpenOutput, WriteOutput
  <2>2. ControlTypes' /\ phase' # "arguments"
    BY <1>2, <1>5 DEF BuildAST, Populate, OpenOutput, WriteOutput, Stop,
       TranslationEnd, ControlTypes
  <2>3. Beginning'
    BY <2>2 DEF Beginning
  <2> QED
    BY <1>1, <2>1, <2>2, <2>3, ArgumentsUnchanged, ConfigUnchanged, TypePartsNext
       DEF TypeInv
<1>6. CASE Enable
  <2>1. ControlTypes' /\ Beginning' /\ ArgumentTypes'
    BY <1>2, <1>6, ArgumentsUnchanged DEF Enable, ControlTypes, Beginning
  <2>2. Applying'
    BY <1>1, <1>6, LoopsUnchanged DEF Enable
  <2>3. files' \in Seq(Text)
    BY <1>2, <1>6 DEF Enable, ArgumentTypes, CLIArguments
  <2>4. emit' \subseteq Declaration
    BY <1>2, <1>6, InputFacts DEF Enable, AppliedTypes, TypeInv, Source
  <2>5. LoopTypes' /\ AppliedTypes' /\ clang_args' \in Seq(Text)
    BY <1>2, <1>6, <2>3, <2>4 DEF Enable, LoopTypes, AppliedTypes
  <2> QED
    BY <1>1, <2>1, <2>2, <2>5, TypePartsNext DEF TypeInv
<1> QED
  BY <1>3, <1>4, <1>5, <1>6 DEF Next

LEMMA TypeInvariant == Spec => []TypeInv
<1>1. TypeInv /\ UNCHANGED vars => TypeInv'
  <2> SUFFICES ASSUME TypeInv, UNCHANGED vars PROVE TypeInv'
    OBVIOUS
  <2>1. UNCHANGED << input, phase, exit, configVars, argVars, output >>
    BY DEF vars
  <2>2. ControlTypes' /\ Beginning'
    BY <2>1, TypeParts DEF TypeInv, ControlTypes, Beginning, argVars
  <2> QED
    BY <2>1, <2>2, ArgumentsUnchanged, ConfigUnchanged, TypeParts, TypePartsNext
       DEF TypeInv
<1> QED
  BY <1>1, InitTypes, NextTypes, PTL DEF Spec

(***************************************************************************)
(* Every variable of the program keeps its type; in particular no value of *)
(* an entry that is in error ever gets into an attribute.                  *)
(***************************************************************************)
THEOREM TypeCorrect == Spec => []TypeOK
<1>1. TypeInv => TypeOK
  BY DEF TypeInv
<1> QED
  BY <1>1, TypeInvariant, PTL

-----------------------------------------------------------------------------
\* The sum that ArgumentsAccounted is about, part by part.
LEMMA SumOfParts ==
  ASSUME NEW i \in Nat, NEW h \in Nat, NEW c \in Nat, NEW m \in Nat, NEW d \in Nat,
         i = h + 2 * c + m + d
  PROVE  /\ i + 2 = h + 2 * (c + 1) + m + d
         /\ i + 2 = h + 2 * c + (m + 2) + d
         /\ i + 2 = h + 2 * c + m + (d + 2)
         /\ i + 1 = (h + 1) + 2 * c + m + d
OBVIOUS

LEMMA ParseArgsAccount ==
  ASSUME TypeInv, ArgumentsAccounted, ParseArgs
  PROVE  ArgumentsAccounted'
<1>1. /\ args \in CLIArguments
      /\ args.config_files \in Seq(Text) /\ args.header_files \in Seq(Text)
      /\ cur_arg_idx \in Nat
  BY TypeParts DEF TypeInv, ArgumentTypes, CLIArguments, Taken
<1> DEFINE i == cur_arg_idx
           h == Len(args.header_files)
           c == Len(args.config_files)
           m == Taken(setOutputModule)
           d == Taken(setOutputDirectory)
<1>2. i \in Nat /\ h \in Nat /\ c \in Nat /\ m \in Nat /\ d \in Nat
  BY <1>1 DEF Taken
<1>3. i = h + 2 * c + m + d
  BY DEF ArgumentsAccounted
<1>4. ArgumentsAccounted' <=> i' = h' + 2 * c' + m' + d'
  BY DEF ArgumentsAccounted
<1>5. CASE ConfigFile
  <2>1. /\ args'.header_files = args.header_files
        /\ args'.config_files = Append(args.config_files, OptionValue)
    BY <1>1, <1>5 DEF ConfigFile, CLIArguments
  <2>2. Len(args'.config_files) = Len(args.config_files) + 1
    BY <1>1, <1>5, <2>1, ArgFacts, AppendProperties DEF ConfigFile
  <2>3. i' = i + 2 /\ h' = h /\ c' = c + 1 /\ m' = m /\ d' = d
    BY <1>5, <2>1, <2>2 DEF ConfigFile, Taken
  <2> HIDE DEF i, h, c, m, d
  <2> QED
    BY <1>2, <1>3, <1>4, <2>3, SumOfParts
<1>6. CASE Output
  <2>1. /\ args'.header_files = args.header_files
        /\ args'.config_files = args.config_files
    BY <1>1, <1>6 DEF Output, CLIArguments
  <2>2. i' = i + 2 /\ h' = h /\ c' = c /\ m' = m + 2 /\ d' = d
    BY <1>6, <2>1 DEF Output, Taken
  <2> HIDE DEF i, h, c, m, d
  <2> QED
    BY <1>2, <1>3, <1>4, <2>2, SumOfParts
<1>7. CASE OutputDirectory
  <2>1. /\ args'.header_files = args.header_files
        /\ args'.config_files = args.config_files
    BY <1>1, <1>7 DEF OutputDirectory, CLIArguments
  <2>2. i' = i + 2 /\ h' = h /\ c' = c /\ d' = d + 2 /\ m' = m
    BY <1>7, <2>1 DEF OutputDirectory, Taken
  <2> HIDE DEF i, h, c, m, d
  <2> QED
    BY <1>2, <1>3, <1>4, <2>2, SumOfParts
<1>8. CASE HeaderFile
  <2>1. /\ args'.config_files = args.config_files
        /\ args'.header_files = Append(args.header_files, Arg)
    BY <1>1, <1>8 DEF HeaderFile, CLIArguments
  <2>2. Len(args'.header_files) = Len(args.header_files) + 1
    BY <1>1, <1>8, <2>1, ArgFacts, AppendProperties DEF HeaderFile
  <2>3. i' = i + 1 /\ h' = h + 1 /\ c' = c /\ m' = m /\ d' = d
    BY <1>8, <2>1, <2>2 DEF HeaderFile, Taken
  <2> HIDE DEF i, h, c, m, d
  <2> QED
    BY <1>2, <1>3, <1>4, <2>3, SumOfParts
<1>9. CASE UNCHANGED << cur_arg_idx, args, setOutputModule, setOutputDirectory >>
  BY <1>9 DEF ArgumentsAccounted
<1> QED
  BY <1>5, <1>6, <1>7, <1>8, <1>9 DEF ParseArgs, ExpandResponse, OptionError, NoInput,
     ArgumentsEnd, argVars

(***************************************************************************)
(* The parser of the command line accounts for every argument, however     *)
(* many there are.                                                         *)
(***************************************************************************)
THEOREM ArgumentsAccountedCorrect == Spec => []ArgumentsAccounted
<1>1. Init => ArgumentsAccounted
  BY EmptySeq DEF Init, ArgumentsAccounted, Taken
<1>2. TypeInv /\ ArgumentsAccounted /\ [Next]_vars => ArgumentsAccounted'
  <2> SUFFICES ASSUME TypeInv, ArgumentsAccounted, [Next]_vars
               PROVE  ArgumentsAccounted'
    OBVIOUS
  <2>1. CASE UNCHANGED argVars
    BY <2>1 DEF ArgumentsAccounted, argVars
  <2>2. CASE ParseArgs
    BY <2>2, ParseArgsAccount
  <2> QED
    BY <2>1, <2>2 DEF Next, BuildAST, Enable, Populate, OpenOutput, WriteOutput, vars
<1> QED
  BY <1>1, <1>2, TypeInvariant, PTL DEF Spec

-----------------------------------------------------------------------------
(***************************************************************************)
(* A file is opened in the last phase only, when main reports nothing any  *)
(* more, and the last phase ends with the file or with an abnormal end.    *)
(***************************************************************************)
Progress ==
  /\ exit = "running" <=> phase # "stopped"
  /\ output # "none" => phase \in {"output", "stopped"}

ExitCode ==
  /\ exit = "success" <=> output = "written"
  /\ exit = "error" => output = "none"

LEMMA Ending ==
  ASSUME TypeInv, Progress, ExitCode, Next
  PROVE  Progress' /\ ExitCode'
<1>1. ControlTypes
  BY TypeParts DEF TypeInv
<1>2. ClangErrors(DocumentOf(Head(files))) \subseteq {"error", "uncaught"}
  BY DEF ClangErrors
<1>3. \A n \in entries : EntryErrors(EntryOf(file, n)) \subseteq {"error", "uncaught"}
  BY DEF EntryErrors
<1>4. CASE ParseArgs
  BY <1>1, <1>4 DEF ParseArgs, ExpandResponse, ConfigFile, Output, OutputDirectory,
     HeaderFile, OptionError, NoInput, ArgumentsEnd, AtArgument, Stop, Progress,
     ExitCode
<1>5. CASE Configure /\ UNCHANGED << argVars, output >>
  <2>1. phase \in {"clang_args", "configure"}
    BY <1>5 DEF Configure, ParseClangArgs, ClangArgsError, ClangArgsEnd, OpenFile,
       FileError, EntryError, LookupError, LookUp, SkipDeclaration,
       ApplyToDeclaration, UnusedTypedef, ApplyToType, ConfigureEnd, AtEntry,
       AtDeclaration
  <2>2. \/ exit' = exit /\ phase' \in {"clang_args", "build", "configure", "populate"}
        \/ phase' = "stopped" /\ exit' \in {"error", "uncaught", "aborted"}
    BY <1>2, <1>3, <1>5, <2>1 DEF Configure, ParseClangArgs, ClangArgsError,
       ClangArgsEnd, OpenFile, FileError, EntryError, LookupError, LookUp,
       SkipDeclaration, ApplyToDeclaration, UnusedTypedef, ApplyToType, ConfigureEnd,
       Stop
  <2>3. output = "none" /\ exit = "running"
    BY <1>1, <2>1 DEF Progress, ControlTypes
  <2> QED
    BY <1>5, <2>2, <2>3 DEF Progress, ExitCode
<1>6. CASE BuildAST \/ Enable \/ Populate
  BY <1>1, <1>6 DEF BuildAST, Enable, Populate, TranslationEnd, Stop, Progress,
     ExitCode
<1>7. CASE OpenOutput \/ WriteOutput
  BY <1>1, <1>7 DEF OpenOutput, WriteOutput, Stop, Progress, ExitCode
<1> QED
  BY <1>4, <1>5, <1>6, <1>7 DEF Next

-----------------------------------------------------------------------------
\* What is left of a file or a list after its first element.
LEMMA TailElements ==
  ASSUME NEW S, NEW s \in Seq(S), s # << >>
  PROVE  /\ Tail(s) \in Seq(S)
         /\ SeqElements(Tail(s)) \subseteq SeqElements(s)
         /\ \A x \in SeqElements(s) : x = Head(s) \/ x \in SeqElements(Tail(s))
<1>1. /\ Tail(s) \in Seq(S) /\ Len(Tail(s)) = Len(s) - 1 /\ Len(s) \in Nat
      /\ DOMAIN s = 1 .. Len(s) /\ DOMAIN Tail(s) = 1 .. Len(s) - 1
      /\ \A i \in 1 .. Len(s) - 1 : Tail(s)[i] = s[i + 1]
      /\ Head(s) = s[1]
  OBVIOUS
<1>2. \A i \in DOMAIN Tail(s) : i + 1 \in DOMAIN s
  BY <1>1
<1>3. \A i \in DOMAIN s : i = 1 \/ (i - 1 \in DOMAIN Tail(s) /\ Tail(s)[i - 1] = s[i])
  BY <1>1
<1> QED
  BY <1>1, <1>2, <1>3 DEF SeqElements

(***************************************************************************)
(* What has been found to be in order when a phase is reached: of the      *)
(* files, those that are not left in it, and of the one that is applied,   *)
(* the entries that are not left.                                          *)
(***************************************************************************)
EntryInOrder(f, n) == EntryErrors(EntryOf(f, n)) = {} /\ n \notin source.throws

ClangChecked(f) ==
  \/ phase \in {"arguments", "options", "stopped"}
  \/ phase = "clang_args" /\ f \in SeqElements(files)
  \/ ClangErrors(DocumentOf(f)) = {}

EntriesChecked(f) ==
  \/ phase \notin {"configure", "populate", "output"}
  \/ phase = "configure" /\ f \in SeqElements(files)
  \/ /\ DocumentOf(f).entries_form # "other"
     /\ \A n \in Entries(f) :
          \/ phase = "configure" /\ f = file /\ n \in entries
          \/ EntryInOrder(f, n)

InputChecked ==
  /\ phase \notin {"arguments", "options", "stopped"} => args.header_files # << >>
  /\ phase \in {"enable", "configure", "populate", "output"} => source.builds

Checked ==
  /\ InputChecked
  /\ \A f \in SeqElements(args.config_files) : ClangChecked(f) /\ EntriesChecked(f)

OnlyInOrder ==
  output # "none" =>
    /\ args.header_files # << >>
    /\ source.builds
    /\ \A f \in SeqElements(args.config_files) : InOrder(f)

LEMMA ConfigureChecks ==
  ASSUME TypeInv, Checked, Configure, input' = input, args' = args
  PROVE  Checked'
<1>1. files \in Seq(Text)
  BY TypeParts DEF TypeInv, LoopTypes
<1>2. /\ \A g : DocumentOf(g)' = DocumentOf(g) /\ Entries(g)' = Entries(g)
      /\ \A g, n : EntryInOrder(g, n)' <=> EntryInOrder(g, n)
  BY DEF DocumentOf, Entries, EntryInOrder, EntryOf, source
<1>3. SeqElements(args.config_files)' = SeqElements(args.config_files)
  BY DEF SeqElements
<1>4. InputChecked'
  BY DEF Checked, InputChecked, Configure, ParseClangArgs, ClangArgsError,
     ClangArgsEnd, OpenFile, FileError, EntryError, LookupError, LookUp, AtEntry,
     SkipDeclaration, ApplyToDeclaration, UnusedTypedef, ApplyToType, AtDeclaration,
     ConfigureEnd, Stop, source
<1>5. ASSUME NEW f \in SeqElements(args.config_files)
      PROVE  ClangChecked(f)' /\ EntriesChecked(f)'
  <2>1. ClangChecked(f) /\ EntriesChecked(f)
    BY <1>5 DEF Checked
  <2>2. files # << >> => /\ f \in SeqElements(files) =>
                                f = Head(files) \/ f \in SeqElements(Tail(files))
    BY <1>1, TailElements
  <2>3. files = << >> => f \notin SeqElements(files)
    BY DEF SeqElements
  <2>4. CASE ParseClangArgs
    BY <1>2, <2>1, <2>2, <2>4 DEF ParseClangArgs, ClangChecked, EntriesChecked
  <2>5. CASE ClangArgsEnd
    BY <1>2, <2>1, <2>3, <2>5 DEF ClangArgsEnd, ClangChecked, EntriesChecked
  <2>6. CASE ClangArgsError \/ FileError \/ EntryError \/ LookupError \/ UnusedTypedef
    BY <2>6 DEF ClangArgsError, FileError, EntryError, LookupError, UnusedTypedef,
       Stop, ClangChecked, EntriesChecked
  <2>7. CASE OpenFile
    BY <1>2, <2>1, <2>2, <2>7 DEF OpenFile, Idle, ClangChecked, EntriesChecked
  <2>8. CASE LookUp
    <3>1. PICK n \in entries : /\ EntryInOrder(file, n)
                               /\ entries' = entries \ {n}
                               /\ UNCHANGED << phase, files, file >>
                               /\ phase = "configure"
      BY <2>8 DEF LookUp, AtEntry, EntryInOrder
    <3> QED
      BY <1>2, <2>1, <3>1 DEF ClangChecked, EntriesChecked
  <2>9. CASE SkipDeclaration \/ ApplyToDeclaration \/ ApplyToType
    <3>1. UNCHANGED << phase, files, file, entries >>
      BY <2>9 DEF SkipDeclaration, ApplyToDeclaration, ApplyToType
    <3> QED
      BY <1>2, <2>1, <3>1 DEF ClangChecked, EntriesChecked
  <2>10. CASE ConfigureEnd
    BY <1>2, <2>1, <2>3, <2>10 DEF ConfigureEnd, Idle, ClangChecked, EntriesChecked
  <2> QED
    BY <2>4, <2>5, <2>6, <2>7, <2>8, <2>9, <2>10 DEF Configure
<1> QED
  BY <1>3, <1>4, <1>5 DEF Checked

LEMMA ChecksGoOn ==
  ASSUME TypeInv, Checked, Next
  PROVE  Checked'
<1>1. input' = input
  BY DEF Next
<1>2. CASE ParseArgs
  <2>1. CASE ArgumentsEnd
    BY <1>1, <2>1 DEF ArgumentsEnd, argVars, Checked, InputChecked, ClangChecked,
       EntriesChecked
  <2>2. CASE ~ArgumentsEnd
    <3>1. phase' \in {"options", "stopped"}
      BY <1>2, <2>2 DEF ParseArgs, ExpandResponse, ConfigFile, Output,
         OutputDirectory, HeaderFile, OptionError, NoInput, AtArgument, Stop
    <3> QED
      BY <3>1 DEF Checked, InputChecked, ClangChecked, EntriesChecked
  <2> QED
    BY <2>1, <2>2
<1>3. CASE Configure /\ UNCHANGED << argVars, output >>
  BY <1>1, <1>3, ConfigureChecks DEF argVars
<1>4. CASE BuildAST \/ Enable \/ Populate \/ OpenOutput \/ WriteOutput
  <2>1. /\ args' = args
        /\ \/ phase' = "stopped"
           \/ phase = "build" /\ phase' = "enable" /\ source.builds
           \/ phase = "enable" /\ phase' = "configure" /\ files' = args.config_files
           \/ phase = "populate" /\ phase' = "output"
           \/ phase = "output" /\ phase' = "output"
    BY <1>4 DEF BuildAST, Enable, Populate, OpenOutput, WriteOutput, Stop, argVars
  <2>2. /\ \A g : DocumentOf(g)' = DocumentOf(g) /\ Entries(g)' = Entries(g)
        /\ \A g, n : EntryInOrder(g, n)' <=> EntryInOrder(g, n)
        /\ SeqElements(args.config_files)' = SeqElements(args.config_files)
    BY <1>1, <2>1 DEF DocumentOf, Entries, EntryInOrder, EntryOf, source, SeqElements
  <2>3. InputChecked'
    BY <1>1, <2>1 DEF Checked, InputChecked, source
  <2>4. ASSUME NEW f \in SeqElements(args.config_files)
        PROVE  ClangChecked(f)' /\ EntriesChecked(f)'
    <3>1. ClangChecked(f) /\ EntriesChecked(f)
      BY <2>4 DEF Checked
    <3>2. files' = args.config_files => f \in SeqElements(files)'
      BY <2>4 DEF SeqElements
    <3> QED
      BY <2>1, <2>2, <3>1, <3>2 DEF ClangChecked, EntriesChecked
  <2> QED
    BY <2>2, <2>3, <2>4 DEF Checked
<1> QED
  BY <1>2, <1>3, <1>4 DEF Next

\* The file is opened when everything has been checked, and is the last thing.
LEMMA OpenedInOrder ==
  ASSUME TypeInv, Progress, Checked, OnlyInOrder, Next
  PROVE  OnlyInOrder'
<1>1. input' = input
  BY DEF Next
<1>2. CASE output = "none" /\ output' # "none"
  <2>1. phase = "output" /\ args' = args
    BY <1>2 DEF Next, ParseArgs, ExpandResponse, ConfigFile, Output, OutputDirectory,
       HeaderFile, OptionError, NoInput, ArgumentsEnd, BuildAST, Enable, Populate,
       OpenOutput, WriteOutput, argVars
  <2>2. args.header_files # << >> /\ source.builds
    BY <2>1 DEF Checked, InputChecked
  <2>3. \A f \in SeqElements(args.config_files) : InOrder(f)
    BY <2>1 DEF Checked, ClangChecked, EntriesChecked, EntryInOrder, InOrder
  <2>4. \A f : InOrder(f)' <=> InOrder(f)
    BY <1>1 DEF InOrder, DocumentOf, Entries, EntryOf, source
  <2> QED
    BY <1>1, <2>1, <2>2, <2>3, <2>4 DEF OnlyInOrder, source, SeqElements
<1>3. CASE output # "none"
  <2>1. phase \in {"output", "stopped"}
    BY <1>3 DEF Progress
  <2>2. args' = args
    BY <2>1 DEF Next, ParseArgs, ExpandResponse, ConfigFile, Output, OutputDirectory,
       HeaderFile, OptionError, NoInput, ArgumentsEnd, AtArgument, BuildAST, Enable,
       Populate, OpenOutput, WriteOutput, argVars
  <2>3. \A f : InOrder(f)' <=> InOrder(f)
    BY <1>1 DEF InOrder, DocumentOf, Entries, EntryOf, source
  <2> QED
    BY <1>1, <1>3, <2>2, <2>3 DEF OnlyInOrder, source, SeqElements
<1> QED
  BY <1>2, <1>3 DEF OnlyInOrder

(***************************************************************************)
(* For all inputs: success means a complete file, what main reports leaves *)
(* none, and no file is opened before every file and entry was in order.   *)
(***************************************************************************)
THEOREM ExitTellsOutputCorrect == Spec => []ExitTellsOutput
<1>1. Init => Progress /\ ExitCode /\ Checked /\ OnlyInOrder
  BY DEF Init, Progress, ExitCode, Checked, InputChecked, ClangChecked,
     EntriesChecked, OnlyInOrder
<1>2. TypeInv /\ Progress /\ ExitCode /\ Checked /\ OnlyInOrder /\ [Next]_vars
        => (Progress /\ ExitCode /\ Checked /\ OnlyInOrder)'
  <2> SUFFICES ASSUME TypeInv, Progress, ExitCode, Checked, OnlyInOrder, [Next]_vars
               PROVE  (Progress /\ ExitCode /\ Checked /\ OnlyInOrder)'
    OBVIOUS
  <2>1. CASE Next
    BY <2>1, Ending, ChecksGoOn, OpenedInOrder
  <2>2. CASE UNCHANGED vars
    <3>1. (Progress /\ ExitCode)'
      BY <2>2 DEF vars, Progress, ExitCode
    <3>2. /\ \A g : DocumentOf(g)' = DocumentOf(g) /\ Entries(g)' = Entries(g)
          /\ \A g, n : EntryInOrder(g, n)' <=> EntryInOrder(g, n)
          /\ \A g : InOrder(g)' <=> InOrder(g)
          /\ SeqElements(args.config_files)' = SeqElements(args.config_files)
          /\ SeqElements(files)' = SeqElements(files)
          /\ source' = source
          /\ UNCHANGED << phase, file, entries, args, output >>
      BY <2>2 DEF vars, argVars, configVars, DocumentOf, Entries, EntryInOrder,
         InOrder, EntryOf, source, SeqElements
    <3>3. Checked'
      BY <3>2 DEF Checked, InputChecked, ClangChecked, EntriesChecked
    <3>4. OnlyInOrder'
      BY <3>2 DEF OnlyInOrder
    <3> QED
      BY <3>1, <3>3, <3>4
  <2> QED
    BY <2>1, <2>2
<1>3. ExitCode /\ OnlyInOrder => ExitTellsOutput
  BY DEF ExitCode, OnlyInOrder, ExitTellsOutput
<1> QED
  BY <1>1, <1>2, <1>3, TypeInvariant, PTL DEF Spec

-----------------------------------------------------------------------------
(***************************************************************************)
(* What the configuration files say of a declaration, if the first k of    *)
(* them are all there are: the formulas of DeclarationsFollowFiles.        *)
(***************************************************************************)
Upto(d, k) == { i \in FilesNaming(d) : i <= k }

LastIn(I, d, attribute, default) ==
  LET S == { i \in I : Given(DeclEntry(i, d)[attribute]) }
  IN  IF S = {} THEN default ELSE DeclEntry(Last(S), d)[attribute]

AtFirst(d) == IF d \in source.inFiles THEN "1" ELSE "0"

DeclSays(d, k) ==
  /\ d \in emit <=> LastIn(Upto(d, k), d, "bound", AtFirst(d)) = "1"
  /\ decl_attributes[d].target_module = LastIn(Upto(d, k), d, "target_module", NoText)
  /\ Upto(d, k) # {} =>
       LET e == DeclEntry(Last(Upto(d, k)), d) IN
         /\ decl_attributes[d].visibility = IF Given(e.visibility) THEN e.visibility
                                            ELSE "unset"
         /\ decl_attributes[d].remove_prefix = OrEmpty(e.remove_prefix)

\* The files do not change.
LEMMA FilesStay ==
  ASSUME input' = input, args' = args
  PROVE  /\ ConfigFiles' = ConfigFiles
         /\ \A i, d : Naming(i, d)' = Naming(i, d)
         /\ \A i, n : FileEntry(i, n)' = FileEntry(i, n)
         /\ \A i, d : DeclEntry(i, d)' = DeclEntry(i, d)
         /\ \A d : FilesNaming(d)' = FilesNaming(d)
         /\ \A d, k : Upto(d, k)' = Upto(d, k)
         /\ \A d : AtFirst(d)' = AtFirst(d)
<1>1. ConfigFiles' = ConfigFiles
  BY DEF ConfigFiles
<1>2. \A i, n : FileEntry(i, n)' = FileEntry(i, n)
  BY DEF FileEntry, EntryOf, DocumentOf
<1>3. \A i, d : Naming(i, d)' = Naming(i, d)
  BY DEF Naming, FileEntries, Entries, EntryOf, DocumentOf, source
<1>4. \A i, d : DeclEntry(i, d)' = DeclEntry(i, d)
  BY <1>2, <1>3 DEF DeclEntry
<1>5. \A d : FilesNaming(d)' = FilesNaming(d)
  BY <1>1, <1>3 DEF FilesNaming
<1>6. \A d, k : Upto(d, k)' = Upto(d, k)
  BY <1>5 DEF Upto
<1>7. \A d : AtFirst(d)' = AtFirst(d)
  BY DEF AtFirst, source
<1> QED
  BY <1>1, <1>2, <1>3, <1>4, <1>5, <1>6, <1>7

-----------------------------------------------------------------------------
(***************************************************************************)
(* Where the loops are when the first k files have been opened: an entry   *)
(* that waits or is applied is one of the k-th file, and what is left to   *)
(* apply it to was found for it.                                           *)
(***************************************************************************)
At(k) ==
  /\ k \in Nat
  /\ Len(files) + k = Len(args.config_files)
  /\ \A j \in DOMAIN files : files[j] = args.config_files[k + j]
  /\ ~Idle => k \in ConfigFiles /\ file = args.config_files[k]
  /\ decls # << >> => SeqElements(decls) \subseteq SeqElements(source.found[entry])
  /\ types # << >> => /\ source.found[entry] = << >>
                      /\ SeqElements(types) \subseteq SeqElements(source.byName[entry])

LEMMA FileNumbers ==
  ASSUME TypeInv
  PROVE  /\ args.config_files \in Seq(Text)
         /\ ConfigFiles \subseteq Nat /\ 0 \notin ConfigFiles
         /\ \A d : FilesNaming(d) \subseteq ConfigFiles
<1>1. args.config_files \in Seq(Text)
  BY TypeParts DEF TypeInv, ArgumentTypes, CLIArguments
<1> QED
  BY <1>1 DEF ConfigFiles, FilesNaming

LEMMA LastIs ==
  ASSUME NEW S \in SUBSET Nat, NEW k \in S, \A j \in S : j <= k
  PROVE  Last(S) = k
<1>1. \A i \in S : (\A j \in S : j <= i) => i = k
  OBVIOUS
<1> QED
  BY <1>1 DEF Last

\* The k-th file decides if it says something, else those before it do.
LEMMA LastInStep ==
  ASSUME TypeInv, NEW k \in Nat, NEW d, k \in FilesNaming(d), NEW attribute, NEW default
  PROVE  /\ k \in Upto(d, k) /\ Last(Upto(d, k)) = k
         /\ LastIn(Upto(d, k), d, attribute, default) =
              IF Given(DeclEntry(k, d)[attribute]) THEN DeclEntry(k, d)[attribute]
              ELSE LastIn(Upto(d, k - 1), d, attribute, default)
<1> DEFINE G(i) == Given(DeclEntry(i, d)[attribute])
           S(m) == { i \in Upto(d, m) : G(i) }
<1>1. FilesNaming(d) \subseteq Nat
  BY FileNumbers
<1>2. \A i \in Nat : i <= k => i = k \/ i <= k - 1
  OBVIOUS
<1>3. \A i \in Nat : i <= k - 1 => i <= k
  OBVIOUS
<1>4. Upto(d, k) = Upto(d, k - 1) \cup {k}
  BY <1>1, <1>2, <1>3 DEF Upto
<1>5. Upto(d, k) \in SUBSET Nat /\ k \in Upto(d, k) /\ \A j \in Upto(d, k) : j <= k
  BY <1>1, <1>4 DEF Upto
<1>6. Last(Upto(d, k)) = k
  BY <1>5, LastIs
<1>7. LastIn(Upto(d, k), d, attribute, default) =
        IF S(k) = {} THEN default ELSE DeclEntry(Last(S(k)), d)[attribute]
  BY DEF LastIn
<1>8. CASE G(k)
  <2>1. k \in S(k) /\ S(k) \in SUBSET Nat /\ \A j \in S(k) : j <= k
    BY <1>5, <1>8
  <2>2. Last(S(k)) = k
    <3> HIDE DEF S
    <3> QED BY <2>1, LastIs
  <2> QED
    BY <1>5, <1>7, <1>8, <1>6, <2>1, <2>2
<1>9. CASE ~G(k)
  <2>1. S(k) = S(k - 1)
    BY <1>4, <1>9
  <2>2. LastIn(Upto(d, k - 1), d, attribute, default) =
          IF S(k - 1) = {} THEN default ELSE DeclEntry(Last(S(k - 1)), d)[attribute]
    BY DEF LastIn
  <2>3. LastIn(Upto(d, k), d, attribute, default) =
          LastIn(Upto(d, k - 1), d, attribute, default)
    <3> HIDE DEF S
    <3> QED BY <1>7, <2>1, <2>2
  <2> QED
    BY <1>5, <1>9, <1>6, <2>3
<1> QED
  BY <1>8, <1>9

LEMMA NothingSaid ==
  ASSUME TypeInv, NEW k \in Nat, NEW d, k \notin FilesNaming(d)
  PROVE  Upto(d, k) = Upto(d, k - 1)
<1>1. FilesNaming(d) \subseteq Nat
  BY FileNumbers
<1>2. \A i \in Nat : i <= k => i = k \/ i <= k - 1
  OBVIOUS
<1>3. \A i \in Nat : i <= k - 1 => i <= k
  OBVIOUS
<1> QED
  BY <1>1, <1>2, <1>3 DEF Upto

LEMMA BoundFacts ==
  ASSUME NEW e \in Entry, e.form # "absent", EntryErrors(e) = {}
  PROVE  e.bound \in {"absent", "0", "1"}
<1>1. e.form = "object"
  <2>1. "error" \notin EntryErrors(e)
    OBVIOUS
  <2> QED
    BY <2>1 DEF EntryErrors, Entry
<1>2. e.bound # "other" /\ e.bound # "2"
  <2>1. "error" \notin EntryErrors(e) /\ "uncaught" \notin EntryErrors(e)
    OBVIOUS
  <2> QED
    BY <1>1, <2>1 DEF EntryErrors
<1> QED
  BY <1>2 DEF Entry

\* The entry that is applied is the one of the k-th file for the declaration.
LEMMA EntryAtHand ==
  ASSUME TypeInv, NEW k, At(k), decls # << >>, NEW d \in Declaration,
         d = Head(decls), AtMostOne(Naming(k, d))
  PROVE  /\ k \in FilesNaming(d)
         /\ DeclEntry(k, d) = EntryOf(file, entry)
         /\ EntryOf(file, entry) \in Entry
         /\ EntryOf(file, entry).form # "absent"
         /\ EntryErrors(EntryOf(file, entry)) = {}
<1>1. k \in ConfigFiles /\ file = args.config_files[k]
  BY DEF At, Idle
<1>2. file \in Text /\ entry \in Entries(file) /\ EntryErrors(EntryOf(file, entry)) = {}
  BY DEF TypeInv, Applying
<1>3. EntryOf(file, entry) \in Entry /\ EntryOf(file, entry).form # "absent"
  BY <1>2, DocumentFacts DEF TypeInv, Entries
<1>4. d \in SeqElements(decls)
  <2>1. decls \in Seq(Declaration \cup {NoDecl})
    BY TypeParts DEF TypeInv, LoopTypes
  <2>2. 1 \in DOMAIN decls /\ Head(decls) = decls[1]
    BY <2>1
  <2> QED
    BY <2>2 DEF SeqElements
<1>5. entry \in Naming(k, d)
  BY <1>1, <1>2, <1>4 DEF Naming, FileEntries, At
<1>6. DeclEntry(k, d) = FileEntry(k, entry)
  BY <1>5 DEF AtMostOne, DeclEntry
<1> QED
  BY <1>1, <1>2, <1>3, <1>5, <1>6 DEF FileEntry, FilesNaming

\* What the files say does not change, only what the declaration has.
LEMMA DeclSaysNext ==
  ASSUME input' = input, args' = args, NEW d, NEW k
  PROVE  DeclSays(d, k)' <=>
           /\ d \in emit' <=> LastIn(Upto(d, k), d, "bound", AtFirst(d)) = "1"
           /\ decl_attributes'[d].target_module =
                LastIn(Upto(d, k), d, "target_module", NoText)
           /\ Upto(d, k) # {} =>
                LET e == DeclEntry(Last(Upto(d, k)), d)
                    a == decl_attributes'[d]
                IN  /\ a.visibility = IF Given(e.visibility) THEN e.visibility ELSE "unset"
                    /\ a.remove_prefix = OrEmpty(e.remove_prefix)
<1> DEFINE I == Upto(d, k)
<1>1. /\ I' = I /\ AtFirst(d)' = AtFirst(d)
      /\ \A i : DeclEntry(i, d)' = DeclEntry(i, d)
  BY FilesStay
<1>2. ASSUME NEW S, NEW T, T = S' PROVE Last(S)' = Last(T)
  BY <1>2 DEF Last
<1>3. \A i, j : j = i' => DeclEntry(i, d)' = DeclEntry(j, d)
  BY <1>1
<1> QED
  BY <1>1, <1>2, <1>3, Zenon DEF DeclSays, LastIn

\* An entry is applied: the declaration is as the k files say, whether it was
\* applied before, to the same declaration under another name, or not.
LEMMA DeclApplied ==
  ASSUME TypeInv, NEW k, At(k), ApplyToDeclaration, input' = input, args' = args,
         NEW d \in Declaration, d = Head(decls), AtMostOne(Naming(k, d)),
         DeclSays(d, k) \/ DeclSays(d, k - 1)
  PROVE  DeclSays(d, k)'
<1> DEFINE e == EntryOf(file, entry)
           a == decl_attributes'[d]
<1>1. decls # << >> /\ k \in Nat
  BY DEF ApplyToDeclaration, AtDeclaration, At
<1>2. /\ k \in FilesNaming(d) /\ DeclEntry(k, d) = e /\ e \in Entry
      /\ e.form # "absent" /\ EntryErrors(e) = {}
  BY <1>1, EntryAtHand
<1>3. e.bound \in {"absent", "0", "1"}
  BY <1>2, BoundFacts
<1>4. emit' = EmitAfter(d) /\ a = AppliedToDecl(d)
  <2>1. decl_attributes \in [Declaration -> DeclAttributes]
    BY TypeParts DEF TypeInv, AppliedTypes
  <2> QED
    BY <2>1 DEF ApplyToDeclaration
<1>5. /\ a.target_module = IF Given(e.target_module) THEN e.target_module
                           ELSE decl_attributes[d].target_module
      /\ a.visibility = IF Given(e.visibility) THEN e.visibility ELSE "unset"
      /\ a.remove_prefix = OrEmpty(e.remove_prefix)
  BY <1>4 DEF AppliedToDecl
<1> HIDE DEF e, a
<1>6. /\ LastIn(Upto(d, k), d, "bound", AtFirst(d)) =
           IF Given(e.bound) THEN e.bound
           ELSE LastIn(Upto(d, k - 1), d, "bound", AtFirst(d))
      /\ LastIn(Upto(d, k), d, "target_module", NoText) =
           IF Given(e.target_module) THEN e.target_module
           ELSE LastIn(Upto(d, k - 1), d, "target_module", NoText)
      /\ Last(Upto(d, k)) = k
  BY <1>1, <1>2, LastInStep
<1>7. d \in emit' <=> LastIn(Upto(d, k), d, "bound", AtFirst(d)) = "1"
  BY <1>3, <1>4, <1>6 DEF EmitAfter, DeclSays, Given, e
<1>8. a.target_module = LastIn(Upto(d, k), d, "target_module", NoText)
  BY <1>5, <1>6 DEF DeclSays
<1> QED
  BY <1>2, <1>5, <1>6, <1>7, <1>8, DeclSaysNext DEF a

\* The entries of the files opened so far have been applied to a declaration,
\* but for one of the last file that waits.
Waits(n, d) == n \in entries \/ (n = entry /\ d \in SeqElements(decls))

DeclFollows(d, k) ==
  (\A i \in ConfigFiles : AtMostOne(Naming(i, d))) =>
    \/ DeclSays(d, k)
    \/ DeclSays(d, k - 1) /\ \E n \in Naming(k, d) : Waits(n, d)

LEMMA DeclFollowsNext ==
  ASSUME TypeInv, NEW k, At(k), input' = input, args' = args,
         NEW d \in Declaration, DeclFollows(d, k),
         \A n \in Naming(k, d) : Waits(n, d) => Waits(n, d)',
         d \in emit' <=> d \in emit, decl_attributes'[d] = decl_attributes[d]
  PROVE  DeclFollows(d, k)'
<1>1. /\ DeclSays(d, k)' <=> DeclSays(d, k)
      /\ DeclSays(d, k - 1)' <=> DeclSays(d, k - 1)
  BY DeclSaysNext DEF DeclSays
<1> QED
  BY <1>1, FilesStay DEF DeclFollows

-----------------------------------------------------------------------------
\* The loops go on.
LEMMA AtOpened ==
  ASSUME TypeInv, NEW k, At(k), OpenFile, input' = input, args' = args
  PROVE  At(k + 1)' /\ k + 1 \in ConfigFiles /\ file' = args.config_files[k + 1]
<1>1. files \in Seq(Text) /\ files # << >> /\ args.config_files \in Seq(Text)
  BY FileNumbers, TypeParts DEF TypeInv, LoopTypes, OpenFile
<1>2. /\ files' \in Seq(Text) /\ Len(files') = Len(files) - 1
      /\ DOMAIN files = 1 .. Len(files) /\ DOMAIN files' = 1 .. Len(files) - 1
      /\ \A j \in 1 .. Len(files) - 1 : files'[j] = files[j + 1]
      /\ file' = files[1] /\ Len(files) \in Nat \ {0}
      /\ DOMAIN args.config_files = 1 .. Len(args.config_files)
      /\ Len(args.config_files) \in Nat
  BY <1>1 DEF OpenFile
<1>3. k \in Nat /\ Len(files) + k = Len(args.config_files)
  BY DEF At
<1>4. /\ k + 1 \in Nat /\ Len(files') + (k + 1) = Len(args.config_files)
      /\ k + 1 \in 1 .. Len(args.config_files)
  <2> DEFINE m == Len(files)
             c == Len(args.config_files)
  <2>1. m \in Nat \ {0} /\ c \in Nat /\ m + k = c
    BY <1>2, <1>3
  <2>2. Len(files') = m - 1
    BY <1>2
  <2> HIDE DEF m, c
  <2>3. (m - 1) + (k + 1) = c /\ k + 1 \in 1 .. c
    BY <1>3, <2>1
  <2> QED
    BY <1>3, <2>2, <2>3 DEF c
<1>5. file' = args.config_files[k + 1]
  <2>1. 1 \in DOMAIN files
    BY <1>2
  <2> QED
    BY <1>2, <2>1 DEF At
<1>6. \A j \in DOMAIN files' : files'[j] = args.config_files[(k + 1) + j]
  <2> TAKE j \in DOMAIN files'
  <2>1. j + 1 \in DOMAIN files /\ files'[j] = files[j + 1] /\ j \in Nat
    BY <1>2
  <2>2. files[j + 1] = args.config_files[k + (j + 1)]
    BY <2>1 DEF At
  <2>3. k + (j + 1) = (k + 1) + j
    BY <1>3, <2>1
  <2> QED
    BY <2>1, <2>2, <2>3
<1>7. decls' = << >> /\ types' = << >>
  BY DEF OpenFile, Idle
<1> QED
  BY <1>2, <1>4, <1>5, <1>6, <1>7 DEF At, ConfigFiles

LEMMA AtNext ==
  ASSUME TypeInv, NEW k, At(k), input' = input, args' = args,
         \/ LookUp \/ SkipDeclaration \/ ApplyToDeclaration \/ ApplyToType
  PROVE  At(k)'
<1>1. decls \in Seq(Declaration \cup {NoDecl}) /\ types \in Seq(Type)
  BY TypeParts DEF TypeInv, LoopTypes
<1>2. files' = files /\ file' = file /\ ~Idle
  BY DEF LookUp, SkipDeclaration, ApplyToDeclaration, ApplyToType, Idle, AtEntry,
     AtDeclaration
<1>3. /\ k \in Nat /\ Len(files') + k = Len(args'.config_files)
      /\ \A j \in DOMAIN files' : files'[j] = args'.config_files[k + j]
      /\ k \in ConfigFiles' /\ file' = args'.config_files[k]
  BY <1>2 DEF At, ConfigFiles
<1>4. CASE LookUp
  <2>1. /\ decls' = source.found[entry']
        /\ types' # << >> => source.found[entry'] = << >>
                             /\ types' = source.byName[entry']
    BY <1>4 DEF LookUp
  <2> QED
    BY <1>3, <2>1 DEF At, source
<1>5. CASE SkipDeclaration \/ ApplyToDeclaration
  <2>1. /\ decls # << >> /\ decls' = Tail(decls) /\ types' = types /\ entry' = entry
    BY <1>5 DEF SkipDeclaration, ApplyToDeclaration, AtDeclaration
  <2>2. SeqElements(decls') \subseteq SeqElements(decls)
    BY <1>1, <2>1, TailElements
  <2> QED
    BY <1>3, <2>1, <2>2 DEF At, source
<1>6. CASE ApplyToType
  <2>1. /\ types # << >> /\ types' = Tail(types) /\ decls' = decls /\ entry' = entry
    BY <1>6 DEF ApplyToType
  <2>2. SeqElements(types') \subseteq SeqElements(types)
    BY <1>1, <2>1, TailElements
  <2> QED
    BY <1>3, <2>1, <2>2 DEF At, source
<1> QED
  BY <1>4, <1>5, <1>6

LEMMA DeclFollowsOpened ==
  ASSUME TypeInv, NEW k, At(k), OpenFile, input' = input, args' = args,
         NEW d \in Declaration, DeclFollows(d, k)
  PROVE  DeclFollows(d, k + 1)'
<1>1. k + 1 \in ConfigFiles /\ file' = args.config_files[k + 1] /\ k \in Nat
  BY AtOpened DEF At
<1>2. ~\E n : Waits(n, d)
  BY DEF OpenFile, Idle, Waits, SeqElements
<1>3. entries' = FileEntries(k + 1)
  BY <1>1, AtOpened DEF OpenFile, FileEntries
<1>4. ASSUME \A i \in ConfigFiles : AtMostOne(Naming(i, d))
      PROVE  \/ DeclSays(d, k + 1)'
             \/ DeclSays(d, k)' /\ \E n \in Naming(k + 1, d) : Waits(n, d)'
  <2>1. DeclSays(d, k)
    BY <1>2, <1>4 DEF DeclFollows
  <2>2. DeclSays(d, k)'
    BY <2>1, DeclSaysNext DEF OpenFile, applied, DeclSays
  <2>3. CASE Naming(k + 1, d) = {}
    <3>1. k + 1 \notin FilesNaming(d)
      BY <2>3 DEF FilesNaming
    <3>2. Upto(d, k + 1) = Upto(d, (k + 1) - 1) /\ (k + 1) - 1 = k
      BY <1>1, <3>1, NothingSaid
    <3>3. DeclSays(d, k + 1)' <=> DeclSays(d, k)'
      BY <3>2, DeclSaysNext
    <3> QED
      BY <2>2, <3>3
  <2>4. CASE Naming(k + 1, d) # {}
    BY <1>3, <2>2, <2>4 DEF Naming, Waits
  <2> QED
    BY <2>3, <2>4
<1>5. (k + 1) - 1 = k
  BY <1>1
<1> QED
  BY <1>4, <1>5, FilesStay DEF DeclFollows

LEMMA DeclFollowsStep ==
  ASSUME TypeInv, NEW k, At(k), input' = input, args' = args,
         \/ LookUp \/ SkipDeclaration \/ ApplyToDeclaration \/ ApplyToType,
         NEW d \in Declaration, DeclFollows(d, k)
  PROVE  DeclFollows(d, k)'
<1>1. decls \in Seq(Declaration \cup {NoDecl}) /\ NoDecl \notin Declaration
  BY TypeParts, DriverAssumption DEF TypeInv, LoopTypes
<1>2. CASE LookUp
  <2>1. \A n \in Naming(k, d) : Waits(n, d) => Waits(n, d)'
    BY <1>2 DEF LookUp, AtEntry, Waits, SeqElements, Naming
  <2> QED
    BY <1>2, <2>1, DeclFollowsNext DEF LookUp, applied
<1>3. CASE SkipDeclaration
  <2>1. \A n \in Naming(k, d) : Waits(n, d) => Waits(n, d)'
    BY <1>1, <1>3, TailElements DEF SkipDeclaration, AtDeclaration, Waits
  <2> QED
    BY <1>3, <2>1, DeclFollowsNext DEF SkipDeclaration, applied
<1>4. CASE ApplyToType
  <2>1. \A n \in Naming(k, d) : Waits(n, d) => Waits(n, d)'
    BY <1>4 DEF ApplyToType, Waits
  <2> QED
    BY <1>4, <2>1, DeclFollowsNext DEF ApplyToType
<1>5. CASE ApplyToDeclaration /\ d # Head(decls)
  <2>1. \A n \in Naming(k, d) : Waits(n, d) => Waits(n, d)'
    BY <1>1, <1>5, TailElements DEF ApplyToDeclaration, AtDeclaration, Waits
  <2>2. (d \in emit' <=> d \in emit) /\ decl_attributes'[d] = decl_attributes[d]
    <3>1. decl_attributes \in [Declaration -> DeclAttributes]
      BY TypeParts DEF TypeInv, AppliedTypes
    <3> QED
      BY <1>5, <3>1 DEF ApplyToDeclaration, EmitAfter
  <2> QED
    BY <2>1, <2>2, DeclFollowsNext
<1>6. CASE ApplyToDeclaration /\ d = Head(decls)
  <2>1. ASSUME \A i \in ConfigFiles : AtMostOne(Naming(i, d)) PROVE DeclSays(d, k)'
    <3>1. k \in ConfigFiles
      BY <1>6 DEF At, Idle, ApplyToDeclaration, AtDeclaration
    <3> QED
      BY <1>6, <2>1, <3>1, DeclApplied DEF DeclFollows
  <2> QED
    BY <2>1, FilesStay DEF DeclFollows
<1> QED
  BY <1>2, <1>3, <1>4, <1>5, <1>6

-----------------------------------------------------------------------------
(***************************************************************************)
(* What the first k files say of a type: the formulas of TypesFollowFiles. *)
(***************************************************************************)
Chosen(i, t) == ConfiguredStrategy(TypeEntry(i, t).strategy)

ReadyFiles(t, k) ==
  { i \in ConfigFiles : i <= k /\ \E n \in EntriesFor(i, t) : Ready(i, n, t) }
ChoosingFiles(t, k) == { i \in ReadyFiles(t, k) : Chosen(i, t) # "UNKNOWN" }

TypeSays(t, k) ==
  /\ type_attributes[t].target_module =
       IF ReadyFiles(t, k) = {} THEN NoText
       ELSE OrEmpty(TypeEntry(Last(ReadyFiles(t, k)), t).target_module)
  /\ type_attributes[t].strategy =
       IF ChoosingFiles(t, k) = {} THEN "UNKNOWN"
       ELSE Chosen(Last(ChoosingFiles(t, k)), t)

LEMMA TypeFilesStay ==
  ASSUME input' = input, args' = args
  PROVE  /\ \A n, t : DeclsOf(n, t)' = DeclsOf(n, t)
         /\ \A i, t : EntriesFor(i, t)' = EntriesFor(i, t)
         /\ \A i, t : TypeEntry(i, t)' = TypeEntry(i, t)
         /\ \A i, t : Replaces(i, t)' <=> Replaces(i, t)
         /\ \A i, n, t : Ready(i, n, t)' <=> Ready(i, n, t)
         /\ \A t : Determined(t)' <=> Determined(t)
         /\ \A t, k : ReadyFiles(t, k)' = ReadyFiles(t, k)
         /\ \A t, k : ChoosingFiles(t, k)' = ChoosingFiles(t, k)
<1>1. /\ ConfigFiles' = ConfigFiles
      /\ \A i, n : FileEntry(i, n)' = FileEntry(i, n)
      /\ \A i : FileEntries(i)' = FileEntries(i)
  BY FilesStay DEF FileEntries, Entries, EntryOf, DocumentOf
<1>2. \A n, t : DeclsOf(n, t)' = DeclsOf(n, t)
  BY DEF DeclsOf, source
<1>3. \A i, t : EntriesFor(i, t)' = EntriesFor(i, t)
  BY <1>1, <1>2 DEF EntriesFor, source
<1>4. \A i, t : TypeEntry(i, t)' = TypeEntry(i, t)
  BY <1>1, <1>3 DEF TypeEntry
<1>5. \A i, t : Replaces(i, t)' <=> Replaces(i, t)
  BY <1>1, <1>3 DEF Replaces
<1>6. \A i, n, t : Ready(i, n, t)' <=> Ready(i, n, t)
  BY <1>2, <1>5 DEF Ready, source
<1>7. \A i, n, t : Never(i, n, t)' <=> Never(i, n, t)
  BY <1>2, <1>5 DEF Never, source
<1>8. \A t : Determined(t)' <=> Determined(t)
  BY <1>1, <1>3, <1>6, <1>7 DEF Determined
<1>9. \A t, k : ReadyFiles(t, k)' = ReadyFiles(t, k)
  BY <1>1, <1>3, <1>6 DEF ReadyFiles
<1>10. \A t, k : ChoosingFiles(t, k)' = ChoosingFiles(t, k)
  BY <1>4, <1>9 DEF ChoosingFiles, Chosen
<1> QED
  BY <1>2, <1>3, <1>4, <1>5, <1>6, <1>8, <1>9, <1>10

LEMMA TypeSaysNext ==
  ASSUME input' = input, args' = args, NEW t, NEW k
  PROVE  TypeSays(t, k)' <=>
           /\ type_attributes'[t].target_module =
                IF ReadyFiles(t, k) = {} THEN NoText
                ELSE OrEmpty(TypeEntry(Last(ReadyFiles(t, k)), t).target_module)
           /\ type_attributes'[t].strategy =
                IF ChoosingFiles(t, k) = {} THEN "UNKNOWN"
                ELSE Chosen(Last(ChoosingFiles(t, k)), t)
<1>1. /\ ReadyFiles(t, k)' = ReadyFiles(t, k)
      /\ ChoosingFiles(t, k)' = ChoosingFiles(t, k)
      /\ \A i : TypeEntry(i, t)' = TypeEntry(i, t)
  BY TypeFilesStay
<1>2. ASSUME NEW S, NEW T, T = S' PROVE Last(S)' = Last(T)
  BY <1>2 DEF Last
<1>3. \A i, j : j = i' => TypeEntry(i, t)' = TypeEntry(j, t)
  BY <1>1
<1> QED
  BY <1>1, <1>2, <1>3 DEF TypeSays, Chosen

\* The k-th file decides on a type that it has an entry for, if the types that
\* this one needs are there.
LEMMA TypeSaysStep ==
  ASSUME TypeInv, NEW k \in ConfigFiles, NEW t, NEW n \in EntriesFor(k, t),
         Ready(k, n, t)
  PROVE  /\ k \in ReadyFiles(t, k) /\ Last(ReadyFiles(t, k)) = k
         /\ IF Chosen(k, t) # "UNKNOWN"
              THEN k \in ChoosingFiles(t, k) /\ Last(ChoosingFiles(t, k)) = k
              ELSE ChoosingFiles(t, k) = ChoosingFiles(t, k - 1)
<1>1. ConfigFiles \subseteq Nat
  BY FileNumbers
<1>2. \A i \in Nat : i <= k => i = k \/ i <= k - 1
  BY <1>1
<1>3. \A i \in Nat : i <= k - 1 => i <= k
  BY <1>1
<1>4. k <= k
  BY <1>1
<1>5. ReadyFiles(t, k) = ReadyFiles(t, k - 1) \cup {k}
  BY <1>1, <1>2, <1>3, <1>4 DEF ReadyFiles
<1>6. ReadyFiles(t, k) \in SUBSET Nat /\ \A j \in ReadyFiles(t, k) : j <= k
  BY <1>1 DEF ReadyFiles
<1>7. Last(ReadyFiles(t, k)) = k
  BY <1>5, <1>6, LastIs
<1>8. ChoosingFiles(t, k) \in SUBSET Nat /\ \A j \in ChoosingFiles(t, k) : j <= k
  BY <1>6 DEF ChoosingFiles
<1>9. CASE Chosen(k, t) # "UNKNOWN"
  <2>1. k \in ChoosingFiles(t, k)
    BY <1>5, <1>9 DEF ChoosingFiles
  <2> QED
    BY <1>5, <1>7, <1>8, <1>9, <2>1, LastIs
<1>10. CASE Chosen(k, t) = "UNKNOWN"
  BY <1>5, <1>7, <1>10 DEF ChoosingFiles
<1> QED
  BY <1>9, <1>10

LEMMA NothingSaidOfType ==
  ASSUME TypeInv, NEW k \in Nat, NEW t, \A n \in EntriesFor(k, t) : ~Ready(k, n, t)
  PROVE  /\ ReadyFiles(t, k) = ReadyFiles(t, k - 1)
         /\ ChoosingFiles(t, k) = ChoosingFiles(t, k - 1)
<1>1. ConfigFiles \subseteq Nat
  BY FileNumbers
<1>2. \A i \in Nat : i <= k => i = k \/ i <= k - 1
  OBVIOUS
<1>3. \A i \in Nat : i <= k - 1 => i <= k
  OBVIOUS
<1>4. ReadyFiles(t, k) = ReadyFiles(t, k - 1)
  BY <1>1, <1>2, <1>3 DEF ReadyFiles
<1> QED
  BY <1>4 DEF ChoosingFiles

-----------------------------------------------------------------------------
(***************************************************************************)
(* A type has a name for its replacement only if some file gives it one,   *)
(* and, if it is one that others need and names are not empty, has it as   *)
(* soon as the entry has been applied.                                     *)
(***************************************************************************)
TypeWaits(n, t) ==
  \/ n \in entries
  \/ /\ n = entry
     /\ IF source.found[n] = << >> THEN t \in SeqElements(types)
        ELSE \E d \in DeclsOf(n, t) : d \in SeqElements(decls)

Replacing(i, n) == FileEntry(i, n).strategy.name = "REPLACE"
NamesGiven ==
  \A i \in ConfigFiles : \A n \in FileEntries(i) : FileEntry(i, n).strategy.d_decl # NoText
Needed(t) == \E d \in Declaration : t \in source.needs[d]
HasName(t) == type_attributes[t].target_name # NoText

NamesFollow(k) ==
  /\ \A t \in Type : HasName(t) => \E j \in 1 .. k : Replaces(j, t)
  /\ NamesGiven =>
       \A t \in Type : Needed(t) =>
         \A j \in 1 .. k : \A n \in EntriesFor(j, t) :
           Replacing(j, n) => HasName(t) \/ (j = k /\ TypeWaits(n, t))

\* The entry at hand, and what it does to a type.
LEMMA EntryOnTypes ==
  ASSUME TypeInv, NEW k, At(k), decls # << >> \/ types # << >>
  PROVE  /\ k \in ConfigFiles /\ k \in Nat /\ entry \in FileEntries(k)
         /\ FileEntry(k, entry) = EntryOf(file, entry)
         /\ EntryOf(file, entry).strategy.name = "REPLACE" =>
              Given(EntryOf(file, entry).strategy.d_decl)
<1>1. k \in ConfigFiles /\ file = args.config_files[k] /\ k \in Nat
  BY DEF At, Idle
<1>2. file \in Text /\ entry \in Entries(file) /\ EntryErrors(EntryOf(file, entry)) = {}
  BY DEF TypeInv, Applying
<1>3. /\ EntryOf(file, entry) \in Entry /\ EntryOf(file, entry).form # "absent"
      /\ "error" \notin EntryErrors(EntryOf(file, entry))
  BY <1>2, DocumentFacts DEF TypeInv, Entries
<1>4. EntryOf(file, entry).strategy.name = "REPLACE" =>
        Given(EntryOf(file, entry).strategy.d_decl)
  <2> DEFINE e == EntryOf(file, entry)
  <2> HIDE DEF e
  <2> SUFFICES e.strategy.name = "REPLACE" => Given(e.strategy.d_decl)
    BY DEF e
  <2>1. e \in Entry /\ e.form # "absent" /\ "error" \notin EntryErrors(e)
    BY <1>3 DEF e
  <2>2. e.form = "object"
    BY <2>1 DEF EntryErrors, Entry
  <2>3. ~StrategyErrors(e.strategy)
    BY <2>1, <2>2 DEF EntryErrors
  <2> QED
    BY <2>3 DEF StrategyErrors
<1> QED
  BY <1>1, <1>2, <1>4 DEF FileEntry, FileEntries

LEMMA TypeApplied ==
  ASSUME TypeInv, NEW k, At(k), decls # << >> \/ types # << >>, NEW t \in Type,
         type_attributes' = AppliedToType(t)
  PROVE  LET e == FileEntry(k, entry)
             s == ConfiguredStrategy(e.strategy)
         IN  /\ \A u \in Type \ {t} : type_attributes'[u] = type_attributes[u]
             /\ type_attributes'[t].target_module = OrEmpty(e.target_module)
             /\ type_attributes'[t].strategy =
                  IF s = "UNKNOWN" THEN type_attributes[t].strategy ELSE s
             /\ type_attributes'[t].target_name =
                  IF s = "REPLACE" THEN e.strategy.d_decl
                  ELSE type_attributes[t].target_name
             /\ s = "REPLACE" <=> e.strategy.name = "REPLACE"
<1>1. type_attributes \in [Type -> TypeAttributes]
  BY TypeParts DEF TypeInv, AppliedTypes
<1>2. /\ FileEntry(k, entry) = EntryOf(file, entry)
      /\ EntryOf(file, entry).strategy.name = "REPLACE" =>
           Given(EntryOf(file, entry).strategy.d_decl)
  BY EntryOnTypes
<1> DEFINE e == FileEntry(k, entry)
           s == ConfiguredStrategy(e.strategy)
           new == [ strategy      |-> IF s = "UNKNOWN" THEN type_attributes[t].strategy
                                      ELSE s,
                    target_name   |-> IF s = "REPLACE" THEN OrEmpty(e.strategy.d_decl)
                                      ELSE type_attributes[t].target_name,
                    target_module |-> OrEmpty(e.target_module) ]
<1>3. type_attributes' = [type_attributes EXCEPT ![t] = new]
  BY <1>2 DEF AppliedToType
<1>4. s = "REPLACE" <=> e.strategy.name = "REPLACE"
  BY <1>2 DEF ConfiguredStrategy, Given
<1>5. s = "REPLACE" => OrEmpty(e.strategy.d_decl) = e.strategy.d_decl
  BY <1>2, <1>4 DEF OrEmpty
<1>6. /\ type_attributes'[t] = new
      /\ \A u \in Type \ {t} : type_attributes'[u] = type_attributes[u]
  <2> HIDE DEF new
  <2> QED BY <1>1, <1>3
<1> HIDE DEF e, s
<1>7. /\ new.target_module = OrEmpty(e.target_module)
      /\ new.strategy = IF s = "UNKNOWN" THEN type_attributes[t].strategy ELSE s
      /\ new.target_name = IF s = "REPLACE" THEN e.strategy.d_decl
                           ELSE type_attributes[t].target_name
  BY <1>5
<1> HIDE DEF new
<1> QED
  BY <1>4, <1>6, <1>7 DEF e, s

\* How a type gets the attributes of an entry: the declaration is wrappable, so
\* what it needs has a name.
LEMMA TypeSteps ==
  ASSUME TypeInv, NEW k, At(k), ApplyToDeclaration \/ ApplyToType
  PROVE  /\ decls # << >> \/ types # << >>
         /\ \/ UNCHANGED type_attributes
            \/ \E t \in Type :
                 /\ type_attributes' = AppliedToType(t)
                 /\ entry \in EntriesFor(k, t)
                 /\ \/ DeclsOf(entry, t) = {}
                    \/ \E d \in DeclsOf(entry, t) : \A b \in source.needs[d] : HasName(b)
<1>1. /\ decls \in Seq(Declaration \cup {NoDecl}) /\ types \in Seq(Type)
      /\ decls # << >> \/ types # << >>
  BY TypeParts DEF TypeInv, LoopTypes, ApplyToDeclaration, ApplyToType, AtDeclaration
<1>2. k \in ConfigFiles /\ entry \in FileEntries(k)
  BY <1>1, EntryOnTypes
<1>3. CASE ApplyToType
  <2> DEFINE t == Head(types)
  <2>1. /\ types # << >> /\ type_attributes' = AppliedToType(t) /\ t \in Type
        /\ 1 \in DOMAIN types /\ t = types[1]
    BY <1>1, <1>3 DEF ApplyToType
  <2>2. t \in SeqElements(types)
    BY <2>1 DEF SeqElements
  <2>3. source.found[entry] = << >> /\ t \in SeqElements(source.byName[entry])
    BY <2>1, <2>2 DEF At
  <2>4. DeclsOf(entry, t) = {}
    BY <2>3 DEF DeclsOf, SeqElements
  <2>5. entry \in EntriesFor(k, t)
    BY <1>2, <2>3 DEF EntriesFor
  <2> QED
    BY <1>1, <2>1, <2>4, <2>5
<1>4. CASE ApplyToDeclaration /\ IsWrappable(Head(decls))
                              /\ source.type[Head(decls)] # NoType
  <2> DEFINE d == Head(decls)
             t == source.type[d]
  <2>1. /\ decls # << >> /\ d # NoDecl /\ d \in Declaration \cup {NoDecl}
        /\ 1 \in DOMAIN decls /\ d = decls[1]
        /\ type_attributes' = AppliedToType(t)
    BY <1>1, <1>4 DEF ApplyToDeclaration, AtDeclaration
  <2>2. t \in Type
    BY <1>4, <2>1, InputFacts DEF TypeInv, Source
  <2>3. d \in SeqElements(source.found[entry])
    BY <2>1 DEF At, SeqElements
  <2>4. d \in DeclsOf(entry, t) /\ \A b \in source.needs[d] : HasName(b)
    BY <1>4, <2>3 DEF IsWrappable, DeclsOf, HasName
  <2>5. source.found[entry] # << >>
    BY <2>3 DEF SeqElements
  <2>6. entry \in EntriesFor(k, t)
    BY <1>2, <2>4, <2>5 DEF EntriesFor
  <2> QED
    BY <1>1, <2>1, <2>2, <2>4, <2>6
<1>5. CASE ApplyToDeclaration /\ ~(/\ IsWrappable(Head(decls))
                                   /\ source.type[Head(decls)] # NoType)
  BY <1>1, <1>5 DEF ApplyToDeclaration
<1> QED
  BY <1>3, <1>4, <1>5

\* A builtin type does not wait for others.
LEMMA NeededReady ==
  ASSUME TypeInv, NEW t, Needed(t), NEW i, NEW n
  PROVE  Ready(i, n, t)
<1>1. WellFormed(input) /\ source \in Source
  BY DriverAssumption, InputFacts DEF TypeInv
<1>2. PICK c \in Declaration : t \in source.needs[c]
  BY DEF Needed
<1>3. \A d \in DeclsOf(n, t) : d \in Declaration /\ source.type[d] = t
  BY <1>1 DEF DeclsOf, Source
<1>4. \A d \in DeclsOf(n, t) : source.needs[d] = {}
  BY <1>1, <1>2, <1>3 DEF WellFormed, source
<1> QED
  BY <1>4 DEF Ready

\* An entry is applied to a type that is determined only if it is ready.
LEMMA AppliedReady ==
  ASSUME TypeInv, NEW k \in ConfigFiles, NamesFollow(k), NEW t, Determined(t),
         entry \in EntriesFor(k, t),
         \/ DeclsOf(entry, t) = {}
         \/ \E d \in DeclsOf(entry, t) : \A b \in source.needs[d] : HasName(b)
  PROVE  Ready(k, entry, t)
<1>1. CASE DeclsOf(entry, t) = {}
  BY <1>1 DEF Ready
<1>2. CASE DeclsOf(entry, t) # {}
  <2>1. PICK d \in DeclsOf(entry, t) : \A b \in source.needs[d] : HasName(b)
    BY <1>2
  <2>2. source.needs[d] \subseteq Type
    BY InputFacts DEF TypeInv, Source, DeclsOf
  <2>3. \A b \in source.needs[d] : \E j \in 1 .. k : Replaces(j, b)
    BY <2>1, <2>2 DEF NamesFollow
  <2>4. ~Never(k, entry, t)
    BY <2>3 DEF Never
  <2> QED
    BY <2>4 DEF Determined
<1> QED
  BY <1>1, <1>2

\* A declaration of a type that is ready is wrappable.
LEMMA ReadyApplied ==
  ASSUME TypeInv, NEW k, At(k), ApplyToDeclaration, NamesFollow(k), NamesGiven,
         NEW t \in Type, Head(decls) \in DeclsOf(entry, t), Ready(k, entry, t)
  PROVE  type_attributes' = AppliedToType(t)
<1> DEFINE d == Head(decls)
<1>1. d \in source.wrappable /\ source.type[d] = t /\ t # NoType /\ d \in Declaration
  BY InputFacts, DriverAssumption DEF DeclsOf, TypeInv, Source
<1>2. source.needs[d] \subseteq Type
  BY <1>1, InputFacts DEF TypeInv, Source
<1>3. k \in Nat
  BY DEF At
<1>4. \A j \in 1 .. k - 1 : j \in 1 .. k /\ j # k
  BY <1>3
<1>5. ASSUME NEW b \in source.needs[d] PROVE HasName(b)
  <2>1. PICK j \in 1 .. k - 1 : Replaces(j, b)
    BY DEF Ready
  <2>2. PICK n \in EntriesFor(j, b) : Replacing(j, n)
    BY <2>1 DEF Replaces, Replacing
  <2>3. Needed(b) /\ b \in Type
    BY <1>1, <1>2 DEF Needed
  <2> QED
    BY <1>4, <2>2, <2>3 DEF NamesFollow
<1>6. IsWrappable(d)
  BY <1>1, <1>5 DEF IsWrappable, HasName
<1> QED
  BY <1>1, <1>6 DEF ApplyToDeclaration

\* An entry waits for a type until it has been applied to it.
LEMMA TypeWaitsNext ==
  ASSUME TypeInv, NEW k, At(k), input' = input,
         \/ LookUp \/ SkipDeclaration \/ ApplyToDeclaration \/ ApplyToType,
         NEW t \in Type, NEW n \in EntriesFor(k, t), TypeWaits(n, t)
  PROVE  \/ TypeWaits(n, t)'
         \/ ApplyToType /\ n = entry /\ type_attributes' = AppliedToType(t)
         \/ ApplyToDeclaration /\ n = entry /\ Head(decls) \in DeclsOf(n, t)
<1>1. /\ decls \in Seq(Declaration \cup {NoDecl}) /\ types \in Seq(Type)
      /\ NoDecl \notin Declaration
  BY TypeParts, DriverAssumption DEF TypeInv, LoopTypes
<1>2. source' = source /\ DeclsOf(n, t)' = DeclsOf(n, t)
  BY DEF source, DeclsOf
<1>3. CASE LookUp
  <2>1. decls = << >> /\ types = << >>
    BY <1>3 DEF LookUp, AtEntry
  <2>2. n \in entries
    BY <2>1 DEF TypeWaits, SeqElements
  <2>3. CASE n \in entries'
    BY <2>3 DEF TypeWaits
  <2>4. CASE n \notin entries'
    <3>1. /\ entry' = n /\ decls' = source.found[n]
          /\ types' = IF source.found[n] = << >> THEN source.byName[n] ELSE << >>
      BY <1>3, <2>2, <2>4 DEF LookUp
    <3> QED
      BY <1>2, <3>1 DEF TypeWaits, EntriesFor, DeclsOf
  <2> QED
    BY <2>3, <2>4
<1>4. CASE SkipDeclaration \/ ApplyToDeclaration
  <2>1. /\ decls # << >> /\ decls' = Tail(decls) /\ types' = types
        /\ entries' = entries /\ entry' = entry
    BY <1>4 DEF SkipDeclaration, ApplyToDeclaration, AtDeclaration
  <2>2. \A d \in SeqElements(decls) : d = Head(decls) \/ d \in SeqElements(decls')
    BY <1>1, <2>1, TailElements
  <2>3. SkipDeclaration => \A d \in DeclsOf(n, t) : d # Head(decls)
    BY <1>1, InputFacts DEF SkipDeclaration, DeclsOf, TypeInv, Source
  <2> QED
    BY <1>2, <1>4, <2>1, <2>2, <2>3 DEF TypeWaits
<1>5. CASE ApplyToType
  <2>1. /\ types # << >> /\ types' = Tail(types) /\ decls' = decls
        /\ entries' = entries /\ entry' = entry
        /\ type_attributes' = AppliedToType(Head(types))
    BY <1>5 DEF ApplyToType
  <2>2. \A u \in SeqElements(types) : u = Head(types) \/ u \in SeqElements(types')
    BY <1>1, <2>1, TailElements
  <2> QED
    BY <1>2, <1>5, <2>1, <2>2 DEF TypeWaits
<1> QED
  BY <1>3, <1>4, <1>5

LEMMA NamesFollowStep ==
  ASSUME TypeInv, NEW k, At(k), input' = input, args' = args, NamesFollow(k),
         \/ LookUp \/ SkipDeclaration \/ ApplyToDeclaration \/ ApplyToType
  PROVE  NamesFollow(k)'
<1>1. /\ \A j, t : EntriesFor(j, t)' = EntriesFor(j, t)
      /\ \A j, t : Replaces(j, t)' <=> Replaces(j, t)
      /\ \A j, n : Replacing(j, n)' <=> Replacing(j, n)
      /\ \A t : Needed(t)' <=> Needed(t)
      /\ NamesGiven' <=> NamesGiven
  <2>1. \A i : FileEntries(i)' = FileEntries(i)
    BY DEF FileEntries, Entries, EntryOf, DocumentOf
  <2> QED
    BY <2>1, FilesStay, TypeFilesStay DEF Replacing, Needed, NamesGiven, source
<1>2. \/ UNCHANGED type_attributes
      \/ /\ decls # << >> \/ types # << >>
         /\ \E t \in Type : type_attributes' = AppliedToType(t) /\ entry \in EntriesFor(k, t)
  BY TypeSteps DEF LookUp, SkipDeclaration, applied
<1>3. ASSUME NEW t \in Type, HasName(t)'
      PROVE  \E j \in 1 .. k : Replaces(j, t)'
  <2>1. CASE HasName(t)
    BY <1>1, <2>1 DEF NamesFollow
  <2>2. CASE ~HasName(t)
    <3>1. PICK u \in Type : /\ type_attributes' = AppliedToType(u)
                            /\ entry \in EntriesFor(k, u)
                            /\ decls # << >> \/ types # << >>
      BY <1>2, <1>3, <2>2 DEF HasName
    <3>2. t = u /\ FileEntry(k, entry).strategy.name = "REPLACE"
      BY <1>3, <2>2, <3>1, TypeApplied DEF HasName
    <3>3. Replaces(k, t) /\ k \in 1 .. k
      <4>1. k \in ConfigFiles /\ k \in Nat
        BY <3>1, EntryOnTypes
      <4>2. k \in 1 .. k
        BY <4>1, FileNumbers
      <4> QED
        BY <3>1, <3>2, <4>2 DEF Replaces
    <3> QED
      BY <1>1, <3>3
  <2> QED
    BY <2>1, <2>2
<1>4. ASSUME NamesGiven, NEW t \in Type, HasName(t)
      PROVE  HasName(t)'
  <2>1. ASSUME NEW u \in Type, type_attributes' = AppliedToType(u),
               decls # << >> \/ types # << >>
        PROVE  HasName(t)'
    <3>1. FileEntry(k, entry).strategy.d_decl # NoText
      BY <1>4, <2>1, EntryOnTypes DEF NamesGiven
    <3> QED
      BY <1>4, <2>1, <3>1, TypeApplied DEF HasName
  <2> QED
    BY <1>2, <1>4, <2>1 DEF HasName
<1>5. ASSUME NamesGiven, NEW t \in Type, Needed(t), NEW j \in 1 .. k,
             NEW n \in EntriesFor(j, t), Replacing(j, n)
      PROVE  HasName(t)' \/ (j = k /\ TypeWaits(n, t)')
  <2>1. CASE HasName(t)
    BY <1>4, <1>5, <2>1
  <2>2. CASE j = k /\ TypeWaits(n, t)
    <3>1. n \in EntriesFor(k, t)
      BY <2>2
    <3>2. \/ TypeWaits(n, t)'
          \/ ApplyToType /\ n = entry /\ type_attributes' = AppliedToType(t)
          \/ ApplyToDeclaration /\ n = entry /\ Head(decls) \in DeclsOf(n, t)
      BY <2>2, <3>1, TypeWaitsNext
    <3>3. ASSUME n = entry, type_attributes' = AppliedToType(t),
                 ApplyToDeclaration \/ ApplyToType
          PROVE  HasName(t)'
      <4>1. decls # << >> \/ types # << >>
        BY <3>3 DEF ApplyToDeclaration, AtDeclaration, ApplyToType
      <4>2. FileEntry(k, entry).strategy.d_decl # NoText
        BY <1>5, <4>1, EntryOnTypes DEF NamesGiven
      <4>3. FileEntry(k, entry).strategy.name = "REPLACE"
        BY <1>5, <2>2, <3>3 DEF Replacing
      <4> QED
        BY <3>3, <4>1, <4>2, <4>3, TypeApplied DEF HasName
    <3>4. ASSUME ApplyToDeclaration, n = entry, Head(decls) \in DeclsOf(n, t)
          PROVE  type_attributes' = AppliedToType(t)
      BY <1>5, <3>4, NeededReady, ReadyApplied
    <3> QED
      BY <2>2, <3>2, <3>3, <3>4
  <2> QED
    BY <1>5, <2>1, <2>2 DEF NamesFollow
<1> QED
  BY <1>1, <1>3, <1>5 DEF NamesFollow

LEMMA NamesFollowOpened ==
  ASSUME TypeInv, NEW k, At(k), OpenFile, input' = input, args' = args, NamesFollow(k)
  PROVE  NamesFollow(k + 1)'
<1>1. /\ \A j, t : EntriesFor(j, t)' = EntriesFor(j, t)
      /\ \A j, t : Replaces(j, t)' <=> Replaces(j, t)
      /\ \A j, n : Replacing(j, n)' <=> Replacing(j, n)
      /\ \A t : Needed(t)' <=> Needed(t)
      /\ NamesGiven' <=> NamesGiven
  <2>1. \A i : FileEntries(i)' = FileEntries(i)
    BY DEF FileEntries, Entries, EntryOf, DocumentOf
  <2> QED
    BY <2>1, FilesStay, TypeFilesStay DEF Replacing, Needed, NamesGiven, source
<1>2. \A t : HasName(t)' <=> HasName(t)
  BY DEF OpenFile, applied, HasName
<1>3. k \in Nat /\ file' = args.config_files[k + 1]
  BY AtOpened DEF At
<1>4. 1 .. k + 1 = (1 .. k) \cup {k + 1}
  BY <1>3
<1>5. \A n, t : ~TypeWaits(n, t)
  BY DEF OpenFile, Idle, TypeWaits, SeqElements
<1>6. \A t : \A n \in EntriesFor(k + 1, t) : TypeWaits(n, t)'
  BY <1>3 DEF OpenFile, TypeWaits, EntriesFor, FileEntries
<1> QED
  BY <1>1, <1>2, <1>4, <1>5, <1>6 DEF NamesFollow

-----------------------------------------------------------------------------
\* The entries of the files opened so far have been applied to a type, but for
\* one of the last file that waits.
TypeFollows(t, k) ==
  Determined(t) =>
    \/ TypeSays(t, k)
    \/ /\ TypeSays(t, k - 1)
       /\ \E n \in EntriesFor(k, t) : Ready(k, n, t) /\ TypeWaits(n, t)

LEMMA TypeSaysApplied ==
  ASSUME TypeInv, NEW k, At(k), decls # << >> \/ types # << >>,
         input' = input, args' = args, NEW t \in Type, Determined(t),
         entry \in EntriesFor(k, t), Ready(k, entry, t),
         type_attributes' = AppliedToType(t), TypeSays(t, k) \/ TypeSays(t, k - 1)
  PROVE  TypeSays(t, k)'
<1>1. k \in ConfigFiles
  BY EntryOnTypes
<1>2. TypeEntry(k, t) = FileEntry(k, entry)
  BY <1>1 DEF Determined, AtMostOne, TypeEntry
<1> DEFINE e == FileEntry(k, entry)
           s == ConfiguredStrategy(e.strategy)
<1>3. /\ type_attributes'[t].target_module = OrEmpty(e.target_module)
      /\ type_attributes'[t].strategy =
           IF s = "UNKNOWN" THEN type_attributes[t].strategy ELSE s
  BY TypeApplied
<1>4. Chosen(k, t) = s
  BY <1>2 DEF Chosen
<1>5. /\ k \in ReadyFiles(t, k) /\ Last(ReadyFiles(t, k)) = k
      /\ IF s # "UNKNOWN"
           THEN k \in ChoosingFiles(t, k) /\ Last(ChoosingFiles(t, k)) = k
           ELSE ChoosingFiles(t, k) = ChoosingFiles(t, k - 1)
  BY <1>1, <1>4, TypeSaysStep
<1> HIDE DEF s
<1>6. type_attributes'[t].target_module =
        IF ReadyFiles(t, k) = {} THEN NoText
        ELSE OrEmpty(TypeEntry(Last(ReadyFiles(t, k)), t).target_module)
  BY <1>2, <1>3, <1>5
<1>7. type_attributes'[t].strategy =
        IF ChoosingFiles(t, k) = {} THEN "UNKNOWN"
        ELSE Chosen(Last(ChoosingFiles(t, k)), t)
  BY <1>3, <1>4, <1>5 DEF TypeSays
<1> QED
  BY <1>6, <1>7, TypeSaysNext

LEMMA TypeFollowsStep ==
  ASSUME TypeInv, NEW k, At(k), input' = input, args' = args, NamesFollow(k),
         \/ LookUp \/ SkipDeclaration \/ ApplyToDeclaration \/ ApplyToType,
         NEW t \in Type, TypeFollows(t, k)
  PROVE  TypeFollows(t, k)'
<1> SUFFICES ASSUME Determined(t)
             PROVE  \/ TypeSays(t, k)'
                    \/ /\ TypeSays(t, k - 1)'
                       /\ \E n \in EntriesFor(k, t) : Ready(k, n, t) /\ TypeWaits(n, t)'
  BY TypeFilesStay DEF TypeFollows
<1>1. NamesGiven
  BY DEF Determined, NamesGiven
<1>2. TypeSays(t, k) \/ TypeSays(t, k - 1)
  BY DEF TypeFollows
<1>3. ASSUME type_attributes' = AppliedToType(t), entry \in EntriesFor(k, t),
             Ready(k, entry, t), decls # << >> \/ types # << >>
      PROVE  TypeSays(t, k)'
  BY <1>2, <1>3, TypeSaysApplied
<1>4. ASSUME type_attributes' = AppliedToType(t), entry \in EntriesFor(k, t),
             decls # << >> \/ types # << >>,
             \/ DeclsOf(entry, t) = {}
             \/ \E d \in DeclsOf(entry, t) : \A b \in source.needs[d] : HasName(b)
      PROVE  TypeSays(t, k)'
  BY <1>3, <1>4, AppliedReady, EntryOnTypes
<1>5. CASE type_attributes'[t] = type_attributes[t]
  <2>1. /\ TypeSays(t, k) => TypeSays(t, k)'
        /\ TypeSays(t, k - 1) => TypeSays(t, k - 1)'
    BY <1>5, TypeSaysNext DEF TypeSays
  <2>2. ASSUME NEW n \in EntriesFor(k, t), Ready(k, n, t), TypeWaits(n, t)
        PROVE  TypeWaits(n, t)' \/ TypeSays(t, k)'
    <3>1. CASE ApplyToType /\ n = entry /\ type_attributes' = AppliedToType(t)
      BY <1>3, <2>2, <3>1 DEF ApplyToType
    <3>2. CASE ApplyToDeclaration /\ n = entry /\ Head(decls) \in DeclsOf(n, t)
      BY <1>1, <1>3, <2>2, <3>2, ReadyApplied DEF ApplyToDeclaration, AtDeclaration
    <3> QED
      BY <2>2, <3>1, <3>2, TypeWaitsNext
  <2> QED
    BY <2>1, <2>2 DEF TypeFollows
<1>6. CASE type_attributes'[t] # type_attributes[t]
  <2>1. ApplyToDeclaration \/ ApplyToType
    BY <1>6 DEF LookUp, SkipDeclaration, applied
  <2>2. PICK u \in Type :
          /\ type_attributes' = AppliedToType(u) /\ entry \in EntriesFor(k, u)
          /\ \/ DeclsOf(entry, u) = {}
             \/ \E d \in DeclsOf(entry, u) : \A b \in source.needs[d] : HasName(b)
          /\ decls # << >> \/ types # << >>
    BY <1>6, <2>1, TypeSteps
  <2>3. u = t
    BY <1>6, <2>2, TypeApplied
  <2> QED
    BY <1>4, <2>2, <2>3
<1> QED
  BY <1>5, <1>6

LEMMA TypeFollowsOpened ==
  ASSUME TypeInv, NEW k, At(k), OpenFile, input' = input, args' = args,
         NEW t \in Type, TypeFollows(t, k)
  PROVE  TypeFollows(t, k + 1)'
<1>1. k + 1 \in ConfigFiles /\ file' = args.config_files[k + 1] /\ k \in Nat
  BY AtOpened DEF At
<1>2. (k + 1) - 1 = k /\ k + 1 \in Nat
  BY <1>1
<1> SUFFICES ASSUME Determined(t)
             PROVE  \/ TypeSays(t, k + 1)'
                    \/ /\ TypeSays(t, k)'
                       /\ \E n \in EntriesFor(k + 1, t) :
                            Ready(k + 1, n, t) /\ TypeWaits(n, t)'
  BY <1>2, TypeFilesStay DEF TypeFollows
<1>3. ~\E n : TypeWaits(n, t)
  BY DEF OpenFile, Idle, TypeWaits, SeqElements
<1>4. TypeSays(t, k)
  BY <1>3 DEF TypeFollows
<1>5. TypeSays(t, k)'
  BY <1>4, TypeSaysNext DEF OpenFile, applied, TypeSays
<1>6. \A n \in EntriesFor(k + 1, t) : TypeWaits(n, t)'
  BY <1>1 DEF OpenFile, TypeWaits, EntriesFor, FileEntries
<1>7. CASE \A n \in EntriesFor(k + 1, t) : ~Ready(k + 1, n, t)
  <2>1. /\ ReadyFiles(t, k + 1) = ReadyFiles(t, k)
        /\ ChoosingFiles(t, k + 1) = ChoosingFiles(t, k)
    BY <1>2, <1>7, NothingSaidOfType
  <2>2. TypeSays(t, k + 1)' <=> TypeSays(t, k)'
    BY <2>1, TypeSaysNext
  <2> QED
    BY <1>5, <2>2
<1> QED
  BY <1>5, <1>6, <1>7

-----------------------------------------------------------------------------
(***************************************************************************)
(* Up to the loop over the files nothing is set; in the loop, declarations *)
(* and types are as the files opened so far say, but for what waits; after *)
(* the loop, nothing waits.                                                *)
(***************************************************************************)
Early == {"arguments", "options", "clang_args", "build", "enable"}

Untouched ==
  /\ Idle
  /\ emit = {}
  /\ \A d \in Declaration : decl_attributes[d].target_module = NoText
  /\ \A t \in Type : /\ type_attributes[t].target_module = NoText
                     /\ type_attributes[t].target_name = NoText
                     /\ type_attributes[t].strategy = "UNKNOWN"

Following(k) ==
  /\ At(k)
  /\ NamesFollow(k)
  /\ \A d \in Declaration : DeclFollows(d, k)
  /\ \A t \in Type : TypeFollows(t, k)

Followed ==
  /\ DeclarationsFollowFiles
  /\ TypesFollowFiles

FilesFollowed ==
  /\ phase \in Early => Untouched
  /\ phase = "configure" => \E k \in Nat : Following(k)
  /\ Followed

LEMMA FollowedIs ==
  ASSUME TypeInv, NEW k, k = Len(args.config_files)
  PROVE  /\ DeclarationsFollowFiles <=>
              (Configured =>
                 \A d \in Declaration :
                   (\A i \in ConfigFiles : AtMostOne(Naming(i, d))) => DeclSays(d, k))
         /\ TypesFollowFiles <=>
              (Configured => \A t \in Type : Determined(t) => TypeSays(t, k))
<1>1. \A i \in ConfigFiles : i <= k
  BY FileNumbers DEF ConfigFiles
<1>2. \A d : Upto(d, k) = FilesNaming(d)
  BY <1>1, FileNumbers DEF Upto
<1>3. \A t : ReadyFiles(t, k) = { i \in ConfigFiles : \E n \in EntriesFor(i, t) : Ready(i, n, t) }
  BY <1>1 DEF ReadyFiles
<1>4. DeclarationsFollowFiles <=>
        (Configured =>
           \A d \in Declaration :
             (\A i \in ConfigFiles : AtMostOne(Naming(i, d))) => DeclSays(d, k))
  BY <1>2 DEF DeclarationsFollowFiles, DeclSays, LastGiven, LastIn, AtFirst
<1>5. TypesFollowFiles <=>
        (Configured => \A t \in Type : Determined(t) => TypeSays(t, k))
  BY <1>3 DEF TypesFollowFiles, TypeSays, ChoosingFiles, Chosen
<1> QED
  BY <1>4, <1>5

LEMMA FollowedIsNext ==
  ASSUME TypeInv, NEW k, k = Len(args.config_files), input' = input, args' = args
  PROVE  /\ DeclarationsFollowFiles' <=>
              (Configured' =>
                 \A d \in Declaration :
                   (\A i \in ConfigFiles : AtMostOne(Naming(i, d))) => DeclSays(d, k)')
         /\ TypesFollowFiles' <=>
              (Configured' => \A t \in Type : Determined(t) => TypeSays(t, k)')
<1>1. \A i \in ConfigFiles : i <= k
  BY FileNumbers DEF ConfigFiles
<1>2. \A d : Upto(d, k)' = FilesNaming(d)'
  BY <1>1, FileNumbers, FilesStay DEF Upto
<1>3. \A t : ReadyFiles(t, k)' =
             { i \in ConfigFiles : \E n \in EntriesFor(i, t) : Ready(i, n, t) }'
  BY <1>1, FilesStay DEF ReadyFiles
<1>4. DeclarationsFollowFiles' <=>
        (Configured' =>
           \A d \in Declaration :
             (\A i \in ConfigFiles : AtMostOne(Naming(i, d)))' => DeclSays(d, k)')
  BY <1>2 DEF DeclarationsFollowFiles, DeclSays, LastGiven, LastIn, AtFirst
<1>5. TypesFollowFiles' <=>
        (Configured' => \A t \in Type : Determined(t)' => TypeSays(t, k)')
  BY <1>3 DEF TypesFollowFiles, TypeSays, ChoosingFiles, Chosen
<1> QED
  BY <1>4, <1>5, FilesStay, TypeFilesStay

LEMMA FollowingStarts ==
  ASSUME TypeInv, Untouched, Enable, input' = input
  PROVE  Following(0)'
<1>1. args' = args /\ args.config_files \in Seq(Text) /\ \A i \in ConfigFiles : ~(i <= 0)
  BY FileNumbers DEF Enable, argVars, ConfigFiles
<1>2. At(0)'
  BY <1>1 DEF Enable, At, Untouched, Idle
<1>3. UNCHANGED << decl_attributes, type_attributes >>
  BY DEF Enable
<1>4. NamesFollow(0)'
  BY <1>3 DEF NamesFollow, Untouched, HasName
<1>5. ASSUME NEW d \in Declaration PROVE DeclFollows(d, 0)'
  <2>1. Upto(d, 0) = {}
    BY <1>1 DEF Upto, FilesNaming
  <2>2. d \in emit' <=> AtFirst(d) = "1"
    BY DEF Enable, Untouched, AtFirst
  <2>3. decl_attributes'[d].target_module = NoText
    BY <1>3 DEF Untouched
  <2>4. /\ LastIn(Upto(d, 0), d, "bound", AtFirst(d)) = AtFirst(d)
        /\ LastIn(Upto(d, 0), d, "target_module", NoText) = NoText
    BY <2>1 DEF LastIn
  <2>5. DeclSays(d, 0)'
    BY <1>1, <2>1, <2>2, <2>3, <2>4, DeclSaysNext
  <2> QED
    BY <2>5 DEF DeclFollows
<1>6. ASSUME NEW t \in Type PROVE TypeFollows(t, 0)'
  <2>1. ReadyFiles(t, 0) = {} /\ ChoosingFiles(t, 0) = {}
    BY <1>1 DEF ReadyFiles, ChoosingFiles
  <2>2. /\ type_attributes'[t].target_module = NoText
        /\ type_attributes'[t].strategy = "UNKNOWN"
    BY <1>3 DEF Untouched
  <2>3. TypeSays(t, 0)'
    BY <1>1, <2>1, <2>2, TypeSaysNext
  <2> QED
    BY <2>3 DEF TypeFollows
<1> QED
  BY <1>2, <1>4, <1>5, <1>6 DEF Following

LEMMA FollowingGoesOn ==
  ASSUME TypeInv, NEW k \in Nat, Following(k), input' = input, args' = args,
         \/ OpenFile \/ LookUp \/ SkipDeclaration \/ ApplyToDeclaration \/ ApplyToType
  PROVE  \E m \in Nat : Following(m)'
<1>1. CASE OpenFile
  <2>1. Following(k + 1)'
    BY <1>1, AtOpened, NamesFollowOpened, DeclFollowsOpened, TypeFollowsOpened
       DEF Following
  <2> QED
    BY <2>1
<1>2. CASE LookUp \/ SkipDeclaration \/ ApplyToDeclaration \/ ApplyToType
  <2>1. Following(k)'
    BY <1>2, AtNext, NamesFollowStep, DeclFollowsStep, TypeFollowsStep DEF Following
  <2> QED
    BY <2>1
<1> QED
  BY <1>1, <1>2

LEMMA FollowingEnds ==
  ASSUME TypeInv, NEW k \in Nat, Following(k), ConfigureEnd,
         input' = input, args' = args
  PROVE  Followed'
<1>1. /\ decls = << >> /\ types = << >> /\ entries = {} /\ files = << >>
      /\ UNCHANGED << emit, decl_attributes, type_attributes >>
  BY DEF ConfigureEnd, Idle, configVars
<1>2. k = Len(args.config_files)
  BY <1>1 DEF Following, At
<1>3. \A n, d : ~Waits(n, d)
  BY <1>1 DEF Waits, SeqElements
<1>4. \A n, t : ~TypeWaits(n, t)
  BY <1>1 DEF TypeWaits, SeqElements
<1>5. ASSUME NEW d \in Declaration, \A i \in ConfigFiles : AtMostOne(Naming(i, d))
      PROVE  DeclSays(d, k)'
  <2>1. DeclSays(d, k)
    BY <1>3, <1>5 DEF Following, DeclFollows
  <2> QED
    BY <1>1, <2>1, DeclSaysNext DEF DeclSays
<1>6. ASSUME NEW t \in Type, Determined(t) PROVE TypeSays(t, k)'
  <2>1. TypeSays(t, k)
    BY <1>4, <1>6 DEF Following, TypeFollows
  <2> QED
    BY <1>1, <2>1, TypeSaysNext DEF TypeSays
<1> QED
  BY <1>2, <1>5, <1>6, FollowedIsNext DEF Followed

LEMMA FollowedStays ==
  ASSUME TypeInv, Followed, input' = input, args' = args,
         UNCHANGED << emit, decl_attributes, type_attributes >>, Configured' => Configured
  PROVE  Followed'
<1>1. ASSUME NEW k, k = Len(args.config_files) PROVE Followed'
  <2>1. \A d : DeclSays(d, k)' <=> DeclSays(d, k)
    BY DeclSaysNext DEF DeclSays
  <2>2. \A t : TypeSays(t, k)' <=> TypeSays(t, k)
    BY TypeSaysNext DEF TypeSays
  <2> QED
    BY <1>1, <2>1, <2>2, FollowedIs, FollowedIsNext DEF Followed
<1> QED
  BY <1>1

LEMMA NotConfigured ==
  ASSUME ~Configured'
  PROVE  Followed'
BY DEF Followed, DeclarationsFollowFiles, TypesFollowFiles

LEMMA StaysUntouched ==
  ASSUME Untouched, UNCHANGED << entries, decls, types, applied >>
  PROVE  Untouched'
BY DEF Untouched, Idle, applied

LEMMA FilesFollowedEarly ==
  ASSUME TypeInv, Progress, FilesFollowed, ParseArgs \/ BuildAST
  PROVE  FilesFollowed'
<1>1. phase \in Early /\ exit = "running"
  BY DEF ParseArgs, ExpandResponse, ConfigFile, Output, OutputDirectory, HeaderFile,
     OptionError, NoInput, ArgumentsEnd, AtArgument, BuildAST, Early, Progress
<1>2. UNCHANGED << entries, decls, types, applied >>
  BY DEF ParseArgs, ExpandResponse, ConfigFile, Output, OutputDirectory, HeaderFile,
     OptionError, NoInput, ArgumentsEnd, BuildAST, configVars, applied
<1>3. phase' \in Early \cup {"stopped"} /\ exit' # "success"
  BY <1>1 DEF ParseArgs, ExpandResponse, ConfigFile, Output, OutputDirectory,
     HeaderFile, OptionError, NoInput, ArgumentsEnd, BuildAST, Stop, Early
<1>4. ~Configured' /\ phase' # "configure"
  BY <1>3 DEF Configured, Early
<1> QED
  BY <1>1, <1>2, <1>4, StaysUntouched, NotConfigured DEF FilesFollowed

LEMMA FilesFollowedConfigure ==
  ASSUME TypeInv, Progress, FilesFollowed, Configure, input' = input, args' = args
  PROVE  FilesFollowed'
<1>1. CASE ParseClangArgs \/ ClangArgsEnd
  <2>1. /\ phase \in Early /\ exit' = exit /\ exit = "running"
        /\ phase' \in Early
        /\ UNCHANGED << entries, decls, types, applied >>
    BY <1>1 DEF ParseClangArgs, ClangArgsEnd, Early, Progress, configVars, applied
  <2>2. ~Configured' /\ phase' # "configure"
    BY <2>1 DEF Configured, Early
  <2> QED
    BY <2>1, <2>2, StaysUntouched, NotConfigured DEF FilesFollowed
<1>2. CASE ClangArgsError \/ FileError \/ EntryError \/ LookupError \/ UnusedTypedef
  <2>1. /\ ClangErrors(DocumentOf(Head(files))) \subseteq {"error", "uncaught"}
        /\ \A n \in entries : EntryErrors(EntryOf(file, n)) \subseteq {"error", "uncaught"}
    BY DEF ClangErrors, EntryErrors
  <2>2. phase' = "stopped" /\ exit' \in {"error", "uncaught", "aborted"}
    BY <1>2, <2>1 DEF ClangArgsError, FileError, EntryError, LookupError,
       UnusedTypedef, Stop
  <2>3. ~Configured'
    BY <2>2 DEF Configured
  <2> QED
    BY <2>2, <2>3, NotConfigured DEF FilesFollowed, Early
<1>3. CASE OpenFile \/ LookUp \/ SkipDeclaration \/ ApplyToDeclaration \/ ApplyToType
  <2>1. phase = "configure" /\ phase' = "configure" /\ exit' = exit /\ exit = "running"
    BY <1>3 DEF OpenFile, LookUp, SkipDeclaration, ApplyToDeclaration, ApplyToType,
       AtEntry, AtDeclaration, Progress
  <2>2. ~Configured'
    BY <2>1 DEF Configured
  <2>3. PICK k \in Nat : Following(k)
    BY <2>1 DEF FilesFollowed
  <2>4. \E m \in Nat : Following(m)'
    BY <1>3, <2>3, FollowingGoesOn
  <2> QED
    BY <2>1, <2>2, <2>4, NotConfigured DEF FilesFollowed, Early
<1>4. CASE ConfigureEnd
  <2>1. phase = "configure" /\ phase' = "populate"
    BY <1>4 DEF ConfigureEnd
  <2>2. PICK k \in Nat : Following(k)
    BY <2>1 DEF FilesFollowed
  <2> QED
    BY <1>4, <2>1, <2>2, FollowingEnds DEF FilesFollowed, Early
<1> QED
  BY <1>1, <1>2, <1>3, <1>4 DEF Configure

LEMMA FilesFollowedNext ==
  ASSUME TypeInv, Progress, FilesFollowed, Next
  PROVE  FilesFollowed'
<1>1. input' = input
  BY DEF Next
<1>2. CASE ParseArgs \/ BuildAST
  BY <1>2, FilesFollowedEarly
<1>3. CASE Configure /\ UNCHANGED << argVars, output >>
  BY <1>1, <1>3, FilesFollowedConfigure DEF argVars
<1>4. CASE Enable
  <2>1. phase = "enable" /\ phase' = "configure" /\ exit' = exit /\ exit = "running"
    BY <1>4 DEF Enable, Progress
  <2>2. ~Configured' /\ Following(0)'
    BY <1>1, <1>4, <2>1, FollowingStarts DEF Configured, FilesFollowed, Early
  <2> QED
    BY <2>1, <2>2, NotConfigured DEF FilesFollowed, Early
<1>5. CASE Populate \/ OpenOutput \/ WriteOutput
  <2>1. phase \in {"populate", "output"} /\ phase' \in {"populate", "output", "stopped"}
    BY <1>5 DEF Populate, OpenOutput, WriteOutput, Stop
  <2>2. /\ args' = args
        /\ UNCHANGED << emit, decl_attributes, type_attributes >>
    BY <1>5 DEF Populate, OpenOutput, WriteOutput, argVars, configVars
  <2>3. Followed'
    BY <1>1, <2>1, <2>2, FollowedStays DEF FilesFollowed, Configured
  <2> QED
    BY <2>1, <2>3 DEF FilesFollowed, Early
<1> QED
  BY <1>2, <1>3, <1>4, <1>5 DEF Next

LEMMA FilesFollowedInvariant == Spec => []FilesFollowed
<1>1. Init => Progress /\ ExitCode /\ FilesFollowed
  <2> SUFFICES ASSUME Init PROVE Progress /\ ExitCode /\ FilesFollowed
    OBVIOUS
  <2>1. Untouched
    BY DEF Init, ConfigInit, Untouched, Idle
  <2>2. ~Configured
    BY DEF Init, Configured
  <2> QED
    BY <2>1, <2>2 DEF Init, Progress, ExitCode, FilesFollowed, Followed,
       DeclarationsFollowFiles, TypesFollowFiles
<1>2. TypeInv /\ Progress /\ ExitCode /\ [Next]_vars
        => Progress' /\ ExitCode'
  BY Ending DEF vars, Progress, ExitCode
<1>3. TypeInv /\ Progress /\ FilesFollowed /\ [Next]_vars => FilesFollowed'
  <2> SUFFICES ASSUME TypeInv, Progress, FilesFollowed, UNCHANGED vars
               PROVE  FilesFollowed'
    BY FilesFollowedNext
  <2>1. input' = input /\ args' = args /\ phase' = phase /\ exit' = exit
        /\ UNCHANGED configVars
    BY DEF vars, argVars
  <2>2. Followed'
    BY <2>1, FollowedStays DEF FilesFollowed, Configured, configVars
  <2>3. CASE phase = "configure"
    <3>1. PICK k \in Nat : Following(k)
      BY <2>3 DEF FilesFollowed
    <3>2. Following(k)'
      <4>1. At(k)'
        BY <2>1, <3>1 DEF Following, At, Idle, ConfigFiles, configVars, source
      <4>2. \A d \in Declaration : DeclFollows(d, k)'
        BY <2>1, <3>1, DeclFollowsNext DEF Following, Waits, configVars
      <4>3. NamesFollow(k)' /\ \A t \in Type : TypeFollows(t, k)'
        <5>1. /\ \A n, t : TypeWaits(n, t)' <=> TypeWaits(n, t)
              /\ \A t : HasName(t)' <=> HasName(t)
          BY <2>1, TypeFilesStay DEF TypeWaits, HasName, configVars, source
        <5>2. /\ \A j, n : Replacing(j, n)' <=> Replacing(j, n)
              /\ \A t : Needed(t)' <=> Needed(t)
              /\ NamesGiven' <=> NamesGiven
          <6>1. \A i : FileEntries(i)' = FileEntries(i)
            BY <2>1 DEF FileEntries, Entries, EntryOf, DocumentOf
          <6> QED
            BY <2>1, <6>1, FilesStay DEF Replacing, Needed, NamesGiven, source
        <5>3. NamesFollow(k)'
          BY <2>1, <3>1, <5>1, <5>2, TypeFilesStay DEF Following, NamesFollow
        <5>4. \A t : /\ TypeSays(t, k)' <=> TypeSays(t, k)
                     /\ TypeSays(t, k - 1)' <=> TypeSays(t, k - 1)
          BY <2>1, TypeSaysNext DEF TypeSays, configVars
        <5>5. \A t \in Type : TypeFollows(t, k)'
          BY <2>1, <3>1, <5>1, <5>4, TypeFilesStay DEF Following, TypeFollows
        <5> QED
          BY <5>3, <5>5
      <4> QED
        BY <4>1, <4>2, <4>3 DEF Following
    <3> QED
      BY <2>1, <2>2, <2>3, <3>2 DEF FilesFollowed, Early
  <2>4. CASE phase # "configure"
    BY <2>1, <2>2, <2>4, StaysUntouched DEF FilesFollowed, configVars, applied
  <2> QED
    BY <2>3, <2>4
<1> QED
  BY <1>1, <1>2, <1>3, TypeInvariant, PTL DEF Spec

(***************************************************************************)
(* What a declaration ends up with does not depend on the order in which   *)
(* the entries of a file are met, which is that of a hash table: for any   *)
(* number of files, what is said last counts.                              *)
(***************************************************************************)
THEOREM DeclarationsFollowFilesCorrect == Spec => []DeclarationsFollowFiles
<1>1. FilesFollowed => DeclarationsFollowFiles
  BY DEF FilesFollowed, Followed
<1> QED
  BY <1>1, FilesFollowedInvariant, PTL

(***************************************************************************)
(* Nor does what a type ends up with, if the types that it needs are given *)
(* a name in a file before.                                                *)
(***************************************************************************)
THEOREM TypesFollowFilesCorrect == Spec => []TypesFollowFiles
<1>1. FilesFollowed => TypesFollowFiles
  BY DEF FilesFollowed, Followed
<1> QED
  BY <1>1, FilesFollowedInvariant, PTL
=============================================================================
