-------------------------------- MODULE Driver --------------------------------
(***************************************************************************)
(* The program as a whole (main.d, cli.d): it reads its arguments, the     *)
(* arguments for clang, and the headers; it enables the declarations of    *)
(* the headers, applies the configuration, translates, and writes a file.  *)
(*                                                                         *)
(* The passes in between are modelled elsewhere: building the declarations *)
(* is module Traversal, of which this module has the result in the input;  *)
(* the translation is module Translator, which either returns or throws.   *)
(***************************************************************************)
EXTENDS Configuration

VARIABLES
  argv,                \* without the name of the program
  cur_arg_idx,         \* how many of them have been looked at
  args,                \* CLIArguments
  setOutputModule,
  setOutputDirectory,
  output               \* the file: "none", "partial" or "written"

argVars == << argv, cur_arg_idx, args, setOutputModule, setOutputDirectory >>
vars == << input, phase, exit, configVars, argVars, output >>

CLIArguments ==
  [ config_files     : Seq(Text),
    header_files     : Seq(Text),
    output_module    : String,
    output_directory : String ]

WellFormed(i) ==
  /\ i \in Input
  /\ \A t \in Text :
       LET doc == i.documents[t] IN
         /\ doc.entries_form # "object" =>
              \A n \in Name : doc.entries[n].form = "absent"
         /\ doc.args_form # "array" => doc.clang_args = << >>
  \* A builtin type is that of variables only, and they need none.
  /\ \A d, e \in Declaration :
       i.source.type[e] \in i.source.needs[d] => i.source.needs[e] = {}

ASSUME DriverAssumption ==
  /\ NoText \notin Text
  /\ NoDecl \notin Declaration
  /\ NoType \notin Type
  /\ \A i \in Inputs : WellFormed(i)

Init ==
  /\ input \in Inputs
  /\ phase = "arguments"
  /\ exit = "running"
  /\ ConfigInit
  /\ argv = input.argv
  /\ cur_arg_idx = 0
  /\ args = [ config_files |-> << >>, header_files |-> << >>,
              output_module |-> NoText, output_directory |-> NoText ]
  /\ setOutputModule = FALSE
  /\ setOutputDirectory = FALSE
  /\ output = "none"

-----------------------------------------------------------------------------
(***************************************************************************)
(* parse_args.  The arguments may be in a file, which is looked for first  *)
(* and only once: what it says is not expanded again.                      *)
(***************************************************************************)
Response == Len(argv) = 2 /\ argv[1] = "--"

ExpandResponse ==
  /\ phase = "arguments"
  /\ IF ~Response
       THEN /\ phase' = "options"
            /\ UNCHANGED << exit, argv >>
       ELSE LET contents == input.responses[argv[2]] IN
              IF contents.form = "missing"
                THEN Stop("error") /\ UNCHANGED argv
                ELSE /\ argv' = contents.tokens
                     /\ phase' = "options"
                     /\ UNCHANGED exit
  /\ UNCHANGED << cur_arg_idx, args, setOutputModule, setOutputDirectory,
                  configVars, output >>

AtArgument == phase = "options" /\ cur_arg_idx < Len(argv)
Arg == argv[cur_arg_idx + 1]

IsConfigFile == Arg \in {"config_file", "-c"}
IsOutput == Arg \in {"--output", "-o"}
IsOutputDirectory == Arg \in {"--output-directory", "-od"}
IsOption == IsConfigFile \/ IsOutput \/ IsOutputDirectory

\* The argument after an option.
HasValue == cur_arg_idx + 1 < Len(argv)
OptionValue == argv[cur_arg_idx + 2]

ConfigFile ==
  /\ AtArgument
  /\ IsConfigFile
  /\ HasValue
  /\ args' = [args EXCEPT !.config_files = Append(@, OptionValue)]
  /\ cur_arg_idx' = cur_arg_idx + 2
  /\ UNCHANGED << phase, exit, argv, setOutputModule, setOutputDirectory,
                  configVars, output >>

\* Variant: the value is looked at again.
OutputThenValue ==
  /\ AtArgument
  /\ IsOutput
  /\ ~setOutputModule
  /\ HasValue
  /\ args' = [args EXCEPT !.output_module = OptionValue]
  /\ setOutputModule' = TRUE
  /\ cur_arg_idx' = cur_arg_idx + 1
  /\ UNCHANGED << phase, exit, argv, setOutputDirectory, configVars, output >>

Output ==
  /\ AtArgument
  /\ IsOutput
  /\ ~setOutputModule
  /\ HasValue
  /\ args' = [args EXCEPT !.output_module = OptionValue]
  /\ setOutputModule' = TRUE
  /\ cur_arg_idx' = cur_arg_idx + 2
  /\ UNCHANGED << phase, exit, argv, setOutputDirectory, configVars, output >>

OutputDirectory ==
  /\ AtArgument
  /\ IsOutputDirectory
  /\ ~setOutputDirectory
  /\ HasValue
  /\ args' = [args EXCEPT !.output_directory = OptionValue]
  /\ setOutputDirectory' = TRUE
  /\ cur_arg_idx' = cur_arg_idx + 2
  /\ UNCHANGED << phase, exit, argv, setOutputModule, configVars, output >>

HeaderFile ==
  /\ AtArgument
  /\ ~IsOption
  /\ args' = [args EXCEPT !.header_files = Append(@, Arg)]
  /\ cur_arg_idx' = cur_arg_idx + 1
  /\ UNCHANGED << phase, exit, argv, setOutputModule, setOutputDirectory,
                  configVars, output >>

OptionError ==
  /\ AtArgument
  /\ IsOption
  /\ \/ ~HasValue
     \/ IsOutput /\ setOutputModule
     \/ IsOutputDirectory /\ setOutputDirectory
  /\ Stop("error")
  /\ UNCHANGED << argVars, configVars, output >>

NoInput ==
  /\ phase = "options"
  /\ cur_arg_idx = Len(argv)
  /\ args.header_files = << >>
  /\ Stop("error")
  /\ UNCHANGED << argVars, configVars, output >>

\* main goes on with parseClangArgs.
ArgumentsEnd ==
  /\ phase = "options"
  /\ cur_arg_idx = Len(argv)
  /\ args.header_files # << >>
  /\ phase' = "clang_args"
  /\ files' = args.config_files
  /\ UNCHANGED << exit, argVars, clang_args, file, entries, entry, decls, types,
                  applied, output >>

ParseArgs ==
  \/ ExpandResponse \/ ConfigFile \/ Output \/ OutputDirectory \/ HeaderFile
  \/ OptionError \/ NoInput \/ ArgumentsEnd

-----------------------------------------------------------------------------
\* buildAST and traverseDeclsInAST: a tree that is not built is a null pointer,
\* and what the traversal throws (Terminate of Traversal) is not caught.
BuildAST ==
  /\ phase = "build"
  /\ IF source.builds THEN phase' = "enable" /\ UNCHANGED exit
     ELSE Stop("aborted")
  /\ UNCHANGED << argVars, configVars, output >>

\* enableDeclarationsInFiles, and the start of parseAndApplyConfiguration.
Enable ==
  /\ phase = "enable"
  /\ emit' = emit \cup source.inFiles
  /\ phase' = "configure"
  /\ files' = args.config_files
  /\ UNCHANGED << exit, argVars, clang_args, file, entries, entry, decls, types,
                  decl_attributes, type_attributes, output >>

\* What the translation throws and main does not catch: an Error, or anything
\* thrown in C++.
TranslationEnd == {"error", "uncaught", "aborted"}

\* Variant: the file is opened before the translation.
PopulateIntoFile ==
  /\ phase = "populate"
  /\ output' = "partial"
  /\ \/ phase' = "output" /\ UNCHANGED exit
     \/ \E e \in TranslationEnd : Stop(e)
  /\ UNCHANGED << argVars, configVars >>

\* populateDAST.
Populate ==
  /\ phase = "populate"
  /\ \/ phase' = "output" /\ UNCHANGED exit
     \/ \E e \in TranslationEnd : Stop(e)
  /\ UNCHANGED << argVars, configVars, output >>

\* visitModule: the file is opened before the tree to write is built.
OpenOutput ==
  /\ phase = "output"
  /\ output = "none"
  /\ \/ output' = "partial" /\ UNCHANGED << phase, exit >>
     \/ Stop("uncaught") /\ UNCHANGED output
  /\ UNCHANGED << argVars, configVars >>

\* Building the tree to write and printing it.  An operand that the translation
\* left null (PrintedExactly of Expressions) is dereferenced here.
WriteOutput ==
  /\ phase = "output"
  /\ output = "partial"
  /\ \/ output' = "written" /\ Stop("success")
     \/ \E e \in {"uncaught", "aborted"} : Stop(e) /\ UNCHANGED output
  /\ UNCHANGED << argVars, configVars >>

Next ==
  /\ \/ ParseArgs
     \/ Configure /\ UNCHANGED << argVars, output >>
     \/ BuildAST \/ Enable \/ Populate \/ OpenOutput \/ WriteOutput
  /\ UNCHANGED input

Spec == Init /\ [][Next]_vars

-----------------------------------------------------------------------------
TypeOK ==
  /\ input \in Input
  /\ phase \in { "arguments", "options", "clang_args", "build", "enable",
               "configure", "populate", "output", "stopped" }
  /\ exit \in {"running", "success", "error", "uncaught", "aborted"}
  /\ argv \in Seq(Text)
  /\ cur_arg_idx \in 0 .. Len(argv)
  /\ args \in CLIArguments
  /\ setOutputModule \in BOOLEAN /\ setOutputDirectory \in BOOLEAN
  /\ clang_args \in Seq(Text)
  /\ files \in Seq(Text) /\ file \in String
  /\ entries \subseteq Name /\ entry \in Name \cup {NoText}
  /\ decls \in Seq(Declaration \cup {NoDecl}) /\ types \in Seq(Type)
  /\ emit \subseteq Declaration
  /\ decl_attributes \in
       [Declaration -> [ target_module : String,
                         visibility    : Visibility \cup {"declared", "unset"},
                         remove_prefix : String ]]
  /\ type_attributes \in
       [Type -> [ strategy      : Strategy,
                  target_name   : String,
                  target_module : String ]]
  /\ output \in {"none", "partial", "written"}

SeqElements(s) == { s[i] : i \in DOMAIN s }
AtMostOne(S) == \A x, y \in S : x = y

\* How many arguments an option and its value are, if it was given.
Taken(set) == IF set THEN 2 ELSE 0

(***************************************************************************)
(* Every argument that has been looked at is an option, its value, or a    *)
(* header: none is dropped, and none is taken for two things.              *)
(***************************************************************************)
ArgumentsAccounted ==
  cur_arg_idx = Len(args.header_files) + 2 * Len(args.config_files)
                  + Taken(setOutputModule) + Taken(setOutputDirectory)

\* A configuration file with nothing in it that the program refuses.
InOrder(f) ==
  /\ ClangErrors(DocumentOf(f)) = {}
  /\ DocumentOf(f).entries_form # "other"
  /\ \A n \in Entries(f) : EntryErrors(EntryOf(f, n)) = {} /\ n \notin source.throws

(***************************************************************************)
(* Success means that the file is complete, and a failure that main itself *)
(* reports leaves no file behind.  The file is not even opened, and so an  *)
(* older one is not lost, unless there were headers, clang could read      *)
(* them, and nothing in any entry of any configuration file was wrong.     *)
(* Only what goes wrong while the output is written leaves half a file.    *)
(***************************************************************************)
ExitTellsOutput ==
  /\ exit = "success" <=> output = "written"
  /\ exit = "error" => output = "none"
  /\ output # "none" =>
       /\ args.header_files # << >>
       /\ source.builds
       /\ \A f \in SeqElements(args.config_files) : InOrder(f)

-----------------------------------------------------------------------------
Configured == phase \in {"populate", "output"} \/ exit = "success"
Last(S) == CHOOSE i \in S : \A j \in S : j <= i
ConfigFiles == DOMAIN args.config_files
FileEntries(i) == Entries(args.config_files[i])
FileEntry(i, n) == EntryOf(args.config_files[i], n)

\* The entries of the i-th file for a declaration.
Naming(i, d) == { n \in FileEntries(i) : d \in SeqElements(source.found[n]) }
FilesNaming(d) == { i \in ConfigFiles : Naming(i, d) # {} }
DeclEntry(i, d) == FileEntry(i, CHOOSE n \in Naming(i, d) : TRUE)

LastGiven(d, attribute, default) ==
  LET S == { i \in FilesNaming(d) : Given(DeclEntry(i, d)[attribute]) }
  IN  IF S = {} THEN default ELSE DeclEntry(Last(S), d)[attribute]

(***************************************************************************)
(* The attributes of a declaration depend on the order of the files, not   *)
(* on the order in which the entries of a file are met: the last file that *)
(* says so decides on bound, before the headers, and on the module; the    *)
(* last one that has an entry at all decides on the rest.                  *)
(***************************************************************************)
DeclarationsFollowFiles ==
  Configured =>
    \A d \in Declaration :
      (\A i \in ConfigFiles : AtMostOne(Naming(i, d))) =>
        LET I == FilesNaming(d)
            e == DeclEntry(Last(I), d)
            a == decl_attributes[d]
        IN  /\ d \in emit <=>
                 LastGiven(d, "bound", IF d \in source.inFiles THEN "1" ELSE "0")
                   = "1"
            /\ a.target_module = LastGiven(d, "target_module", NoText)
            /\ I # {} =>
                 /\ a.visibility = IF Given(e.visibility) THEN e.visibility
                                   ELSE "unset"
                 /\ a.remove_prefix = OrEmpty(e.remove_prefix)

\* The entries of the i-th file for a type, through declarations of it or by
\* its own name.
DeclsOf(n, t) ==
  { d \in SeqElements(source.found[n]) \cap source.wrappable : source.type[d] = t }
EntriesFor(i, t) ==
  { n \in FileEntries(i) :
      IF source.found[n] = << >> THEN t \in SeqElements(source.byName[n])
      ELSE DeclsOf(n, t) # {} }
TypeEntry(i, t) == FileEntry(i, CHOOSE n \in EntriesFor(i, t) : TRUE)

\* A file that gives a builtin type its replacement.
Replaces(i, b) == \E n \in EntriesFor(i, b) : FileEntry(i, n).strategy.name = "REPLACE"

Ready(i, n, t) ==
  \A d \in DeclsOf(n, t) : \A b \in source.needs[d] :
    \E j \in 1 .. i - 1 : Replaces(j, b)
Never(i, n, t) ==
  \A d \in DeclsOf(n, t) : \E b \in source.needs[d] :
    \A j \in 1 .. i : ~Replaces(j, b)

\* No two entries of one file compete for a type, or for it to be wrappable,
\* and no type is replaced by an empty name.
Determined(t) ==
  \A i \in ConfigFiles :
    /\ AtMostOne(EntriesFor(i, t))
    /\ \A n \in FileEntries(i) : FileEntry(i, n).strategy.d_decl # NoText
    /\ \A n \in EntriesFor(i, t) : Ready(i, n, t) \/ Never(i, n, t)

(***************************************************************************)
(* So do the attributes of a type, if an enum or a typedef is configured   *)
(* in a later file than the builtin type that it needs, which is given a   *)
(* name, and no file has several entries for the type: one for a variable  *)
(* of it is such an entry.                                                 *)
(***************************************************************************)
TypesFollowFiles ==
  Configured =>
    \A t \in Type : Determined(t) =>
      LET I == { i \in ConfigFiles : \E n \in EntriesFor(i, t) : Ready(i, n, t) }
          Chosen(i) == ConfiguredStrategy(TypeEntry(i, t).strategy)
          S == { i \in I : Chosen(i) # "UNKNOWN" }
      IN  /\ type_attributes[t].target_module =
               IF I = {} THEN NoText ELSE OrEmpty(TypeEntry(Last(I), t).target_module)
          /\ type_attributes[t].strategy =
               IF S = {} THEN "UNKNOWN" ELSE Chosen(Last(S))
=============================================================================
