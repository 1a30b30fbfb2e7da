------------------------------- MODULE MCDriver -------------------------------
(***************************************************************************)
(* Families of inputs for Driver: command lines, configuration files, and  *)
(* the declarations and types that the first pass finds in the headers.    *)
(***************************************************************************)
EXTENDS Driver

NoStrategy == [form |-> "absent", name |-> "absent", d_decl |-> "absent", extra |-> FALSE]

NoEntry ==
  [ form |-> "absent", bound |-> "absent", target_module |-> "absent",
    visibility |-> "absent", remove_prefix |-> "absent", strategy |-> NoStrategy,
    extra |-> FALSE ]
EmptyEntry == [NoEntry EXCEPT !.form = "object"]

To(name, d_decl, extra) ==
  [form |-> "object", name |-> name, d_decl |-> d_decl, extra |-> extra]

Replaced == [EmptyEntry EXCEPT !.strategy = To("REPLACE", "x", FALSE),
                               !.target_module = "m"]
Hidden == [EmptyEntry EXCEPT !.visibility = "private", !.bound = "0"]
Structured == [EmptyEntry EXCEPT !.strategy = To("STRUCT", "absent", FALSE),
                                 !.bound = "1", !.remove_prefix = "x"]

\* Entries that are wrong in one way or another, and one whose strategy has a
\* name that the program passes over.
OddEntries ==
  { [NoEntry EXCEPT !.form = "other"],
    [EmptyEntry EXCEPT !.extra = TRUE, !.bound = "2"],
    [EmptyEntry EXCEPT !.visibility = "unknown"],
    [EmptyEntry EXCEPT !.bound = "other"],
    [EmptyEntry EXCEPT !.strategy.form = "other"],
    [EmptyEntry EXCEPT !.strategy = To("REPLACE", "absent", TRUE)],
    [EmptyEntry EXCEPT !.strategy = To("REPLACE", "x", TRUE)],
    [EmptyEntry EXCEPT !.strategy = To("UNKNOWN", "x", TRUE)],
    [EmptyEntry EXCEPT !.strategy = To("REPLACE", "absent", FALSE)],
    [EmptyEntry EXCEPT !.strategy = To("REPLACE", NoText, FALSE)] }

NoEntries == [n \in Name |-> NoEntry]

EmptyDocument ==
  [ form |-> "object", extra |-> FALSE, args_form |-> "absent",
    clang_args |-> << >>, entries_form |-> "absent", entries |-> NoEntries ]
Missing == [EmptyDocument EXCEPT !.form = "missing"]

With(given) ==
  [EmptyDocument EXCEPT !.entries_form = "object",
                        !.entries = [ n \in Name |-> IF n \in DOMAIN given
                                                     THEN given[n] ELSE NoEntry ]]
Passing(clangArgs, doc) ==
  [doc EXCEPT !.args_form = "array", !.clang_args = clangArgs]

OddDocuments ==
  { Missing,
    [EmptyDocument EXCEPT !.form = "malformed"],
    [EmptyDocument EXCEPT !.extra = TRUE],
    [EmptyDocument EXCEPT !.args_form = "other"],
    Passing(<<"x", "other">>, EmptyDocument),
    [EmptyDocument EXCEPT !.entries_form = "other"] }

(* int i; typedef int s; typedef s u, which is not used; f, two functions  *)
(* of which one is not wrappable; a static v that is no Declaration; q::r  *)
(* in a namespace that is not there; w is not in the headers at all.       *)
Headers(builds) ==
  [ found     |-> [ n \in Name |-> CASE n = "i" -> << "di" >>
                                     [] n = "s" -> << "ds" >>
                                     [] n = "u" -> << "du" >>
                                     [] n = "f" -> << "df", "none", "dg" >>
                                     [] OTHER -> << >> ],
    throws    |-> {"q::r"},
    byName    |-> [ n \in Name |-> IF n = "int" THEN << "tint" >> ELSE << >> ],
    type      |-> [ d \in Declaration |-> CASE d = "di" -> "tint"
                                            [] d = "ds" -> "ts"
                                            [] OTHER -> "notype" ],
    unused    |-> {"du"},
    wrappable |-> {"di", "ds", "du", "df"},
    needs     |-> [ d \in Declaration |-> IF d \in {"ds", "du"} THEN {"tint"} ELSE {} ],
    inFiles   |-> {"di", "df", "du"},
    builds    |-> builds ]

MakeInput(arguments, tokens, a, b, builds) ==
  [ argv      |-> arguments,
    responses |-> [ t \in Text |-> IF t = "r"
                                     THEN [form |-> "read", tokens |-> tokens]
                                     ELSE [form |-> "missing", tokens |-> << >>] ],
    documents |-> [ t \in Text |-> CASE t = "a" -> a [] t = "b" -> b
                                     [] OTHER -> Missing ],
    source    |-> Headers(builds) ]

\* Every command line of up to three arguments, and some longer ones.
Arguments ==
  { << >> } \cup (UNION { [1 .. n -> {"-c", "-o", "-od", "--", "a", "r"}] : n \in 1 .. 3 })
    \cup { << "-c", "a", "x", "-o", "m", "-od", "y" >>,
           << "-o", "m", "x", "-o", "y" >>, << "-od", "m", "x", "-od", "y" >>,
           << "-od", "m", "x", "--output-directory" >>,
           << "--output", "-c", "config_file", "a", "x", "-c", "b", "y" >> }

CommandLines ==
  { MakeInput(arguments, tokens, EmptyDocument, EmptyDocument, TRUE) :
      arguments \in Arguments, tokens \in { << >>, << "--", "r" >>, << "-c", "a", "x" >> } }

Both == << "-c", "a", "x", "-c", "b" >>

Files(names) ==
  UNION { { With(given) : given \in [N -> {Replaced, Hidden, Structured}] } :
            N \in { N \in SUBSET names : Cardinality(N) \in {1, 2} } }

Single(name) == { With([n \in {name} |-> e]) : e \in {Replaced, Hidden, Structured} }

ConfigurationPairs ==
  { MakeInput(Both, << >>, Passing(<<"x", "y">>, a), Passing(<<"m">>, b), TRUE) :
      a \in Files({"int", "i", "s", "f"}),
      b \in Single("int") \cup Single("s") \cup Single("f") }
    \cup
  { MakeInput(Both, << >>, a, b, TRUE) :
      a \in Single("int") \cup Single("s") \cup Single("f"),
      b \in Files({"int", "i", "s", "f"}) }

Odd ==
  { MakeInput(Both, << >>, a, b, TRUE) :
      a \in OddDocuments \cup { With([n \in {"i"} |-> e]) : e \in OddEntries },
      b \in { EmptyDocument, Missing } }
    \cup
  { MakeInput(Both, << >>, With([n \in {"int"} |-> Replaced]),
              With([n \in names |-> Structured]), builds) :
      names \in { {"w", "u"}, {"q::r", "i"} }, builds \in BOOLEAN }

MCInputs == CommandLines \cup ConfigurationPairs \cup Odd
=============================================================================
