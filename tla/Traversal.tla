------------------------------ MODULE Traversal ------------------------------
(***************************************************************************)
(* The first pass (cpp_decl.cpp, cpp_decl.hpp): DeclVisitor walks clang's  *)
(* declarations and keeps one Declaration object for all redeclarations of *)
(* an entity, enableDeclarationsInFiles marks what is to be emitted, and   *)
(* arrayOfFreeDeclarations hands the root declarations to the translation. *)
(*                                                                         *)
(* A Declaration object is identified with the clang declaration it was    *)
(* made from (its _decl), which also decides its class.                    *)
(*                                                                         *)
(* Data that is abstracted: names, visibility and types of declarations.   *)
(* Type::get throws nothing that DeclVisitor catches: SkipUnwrappableType  *)
(* is caught, but no code throws it.                                       *)
(***************************************************************************)
EXTENDS Naturals, Sequences

CONSTANTS
  Decl,      \* the declarations in clang's syntax tree
  NoDecl,    \* no entry in a table
  Unit,      \* the TranslationUnitDecl
  Programs   \* the syntax trees to consider

\* What DeclVisitor tells apart.  Unwrappable: constructors, friends, using
\* declarations, function templates, deleted methods, partial specializations,
\* variadic templates and their specializations, and the like.  Unhandled:
\* namespace aliases and everything else no function of DeclVisitor is for.
Kind == { "TranslationUnit", "LinkageSpec", "Namespace", "Function", "Method",
          "Argument", "Variable", "Field", "Enum", "EnumConstant", "Typedef",
          "Record", "Union", "RecordTemplate", "UnionTemplate",
          "SpecializedRecord", "AliasTemplate", "TemplateArgument",
          "Unwrappable", "Unhandled" }

(***************************************************************************)
(* canonical: getCanonicalDecl, the first declaration of the same entity   *)
(* parts:     the declarations visited on behalf of one, in order: those   *)
(*            in a context, the parameters of a function, or the template  *)
(*            parameters, the templated declaration and, as clang hands    *)
(*            them out, the latest declarations of the specializations     *)
(* defined:   declarations that are definitions                            *)
(* inFiles:   named declarations located in the files on the command line  *)
(* implicit:  declarations clang adds                                      *)
(* line:      getLocation, in the order of isBeforeInTranslationUnit; 0 if *)
(*            it is not valid, as for what clang adds                      *)
(* end:       where the declaration ends                                   *)
(***************************************************************************)
Program == [ kind      : [Decl -> Kind],
             canonical : [Decl -> Decl],
             parts     : [Decl -> Seq(Decl)],
             defined   : SUBSET Decl,
             inFiles   : SUBSET Decl,
             implicit  : SUBSET Decl,
             line      : [Decl -> Nat],
             end       : [Decl -> Nat] ]

(***************************************************************************)
(* What C++ and clang guarantee of a syntax tree.  Only a specialization   *)
(* is handed out more than once: by its template, and where it stands.     *)
(***************************************************************************)
Nested == {"LinkageSpec", "Namespace"}
Scopes == Nested \cup {"TranslationUnit"}

StandsIn(p, x, c) ==
  p.kind[c] # "Unwrappable" /\ \E i \in DOMAIN p.parts[c] : p.parts[c][i] = x

InScope(p, x) == \E c \in Decl : p.kind[c] \in Scopes /\ StandsIn(p, x, c)

OnePlace(p) ==
  /\ \A x, c \in Decl : StandsIn(p, x, c) =>
       /\ p.kind[x] # "SpecializedRecord" =>
            \A d \in Decl : StandsIn(p, x, d) => d = c
       /\ p.kind[x] \in Nested => p.kind[c] \in Scopes
  /\ \A c \in Decl : p.kind[c] \in Nested /\ p.parts[c] # << >> => InScope(p, c)

(***************************************************************************)
(* The order of the source.  Only a tag that a declarator names before it  *)
(* is defined, as in void f(struct s * p), may stand before a declaration  *)
(* whose location is an earlier one.                                       *)
(***************************************************************************)
HasOrder(p, x) ==
  /\ p.line[x] # 0
  /\ p.kind[x] \in Nested \/ (x \in p.defined /\ p.kind[x] \in {"Record", "RecordTemplate"})

InOrderOfSource(p) ==
  \A c \in Decl : p.kind[c] \in Scopes =>
    \A i \in DOMAIN p.parts[c] :
      LET x == p.parts[c][i]
      IN  /\ p.kind[x] \in Nested => p.line[x] # 0
          /\ c # Unit =>
               /\ p.line[x] # 0 => p.line[c] < p.line[x]
               /\ p.line[x] <= p.end[c]
               /\ p.kind[x] \in Nested => p.end[x] <= p.end[c]
          /\ \A j \in DOMAIN p.parts[c] :
               LET y == p.parts[c][j]
               IN  i < j /\ HasOrder(p, y) =>
                     /\ p.line[x] < p.line[y]
                     /\ p.kind[x] \in Nested => p.end[x] < p.line[y]

(***************************************************************************)
(* Where a class or class template is defined, if another declaration y of *)
(* it stands in d: in a namespace or the like, or where y stands, or it is *)
(* the class of a template.  The first declaration is the canonical one.   *)
(***************************************************************************)
DefinedWithin(p, x, y, d) ==
  LET first == p.canonical[x] = x
  IN  \E c \in Decl :
        /\ StandsIn(p, x, c)
        /\ \/ /\ p.kind[c] \in Scopes
              /\ first => p.kind[d] \in Scopes /\ p.line[x] \in 1 .. (p.line[y] - 1)
           \/ /\ c = d
              /\ first => \A j \in DOMAIN p.parts[d] : p.parts[d][j] = y =>
                           \E i \in 1 .. (j - 1) : p.parts[d][i] = x
           \/ /\ p.kind[x] = "Record" /\ p.kind[c] = "RecordTemplate" /\ c \in p.defined
              /\ c # d /\ p.canonical[c] = p.canonical[d]
              /\ first => p.canonical[c] = c

Redeclares(p, x, y) == x # y /\ p.canonical[x] = p.canonical[y]

DefinitionsReached(p) ==
  \A x, y, d \in Decl : Redeclares(p, x, y) /\ StandsIn(p, y, d) =>
    /\ x \in p.defined =>
         /\ p.kind[x] \in {"Record", "RecordTemplate"} => DefinedWithin(p, x, y, d)
         /\ p.kind[x] = "SpecializedRecord" => InScope(p, x)
    /\ p.kind[x] = "Namespace" /\ x = p.canonical[x] /\ InScope(p, x) =>
         p.line[x] \in 1 .. (p.line[y] - 1)

WellFormed(p) ==
  /\ p \in Program
  /\ p.kind[Unit] = "TranslationUnit"
  /\ \A d \in Decl :
       /\ p.kind[d] = "TranslationUnit" => d = Unit
       /\ p.canonical[p.canonical[d]] = p.canonical[d]
       /\ p.kind[p.canonical[d]] = p.kind[d]
       /\ \A i \in DOMAIN p.parts[d] : p.parts[d][i] # Unit
  /\ \A d, e \in p.defined : p.canonical[d] = p.canonical[e] => d = e
  /\ OnePlace(p) /\ InOrderOfSource(p) /\ DefinitionsReached(p)

ASSUME TraversalAssumption ==
  /\ NoDecl \notin Decl
  /\ Unit \in Decl
  /\ \A p \in Programs : WellFormed(p)

VARIABLES
  prog,          \* the syntax tree; never changes
  phase,         \* "traverse", "enable", "done", or "terminated"
  visitors,      \* the DeclVisitors at work, innermost last
  declarations,  \* DeclVisitor::declarations: clang declaration to object
  free,          \* DeclVisitor::free_declarations
  lists,         \* allTemplateParameterLists of a template, by whose they are
  emit,          \* the objects with should_emit
  visited        \* history: the declarations a visitor got to

vars == << prog, phase, visitors, declarations, free, lists, emit, visited >>

\* top is top_level_decls; next counts the parts that are done with.
Visitor == [decl : Decl, top : BOOLEAN, entered : BOOLEAN, next : Nat]

KindOf(d) == prog.kind[d]
Canonical(d) == prog.canonical[d]
Known(d) == declarations[d] # NoDecl

\* An Unwrappable declaration is not looked into.
Parts(d) == IF KindOf(d) = "Unwrappable" THEN << >> ELSE prog.parts[d]

Cur == visitors[Len(visitors)]
Callers == SubSeq(visitors, 1, Len(visitors) - 1)
CurDone == [Cur EXCEPT !.next = @ + 1]
Part == Parts(Cur.decl)[Cur.next + 1]

Visiting == phase = "traverse" /\ visitors # << >>

-----------------------------------------------------------------------------
NewVisitor(d, top) == [decl |-> d, top |-> top, entered |-> FALSE, next |-> 0]

Init ==
  /\ prog \in Programs
  /\ phase = "traverse"
  /\ visitors = << NewVisitor(Unit, FALSE) >>
  /\ declarations = [d \in Decl |-> NoDecl]
  /\ free = {}
  /\ lists = [d \in Decl |-> << >>]
  /\ emit = {}
  /\ visited = {}

-----------------------------------------------------------------------------
(***************************************************************************)
(* allocateDeclaration: an entity has one object, found through its        *)
(* canonical declaration, which is entered in the table even if it has not *)
(* been visited.                                                           *)
(***************************************************************************)
ObjectFor(d) == IF Known(Canonical(d)) THEN declarations[Canonical(d)] ELSE d

\* Variant: only the redeclaration is entered in the table.
EnteredAlone(d) ==
  [ e \in Decl |->
      IF ~Known(e) /\ e = d THEN ObjectFor(d) ELSE declarations[e] ]

Entered(d) ==
  [ e \in Decl |->
      IF ~Known(e) /\ e \in {d, Canonical(d)} THEN ObjectFor(d)
      ELSE declarations[e] ]

\* Methods are traversed with top_level_decls off.
AllocatesFree(v) == v.top /\ KindOf(v.decl) # "Method"

NotAllocated == {"TranslationUnit", "LinkageSpec", "Unhandled"}
Templates == {"RecordTemplate", "UnionTemplate"}

Allocate ==
  /\ Visiting
  /\ ~Cur.entered
  /\ KindOf(Cur.decl) \notin NotAllocated
  /\ declarations' = Entered(Cur.decl)
  /\ free' = IF AllocatesFree(Cur) THEN free \cup {ObjectFor(Cur.decl)} ELSE free
  /\ lists' = IF KindOf(Cur.decl) \in Templates
                THEN [lists EXCEPT ![ObjectFor(Cur.decl)] = Append(@, Cur.decl)]
                ELSE lists
  /\ visitors' = Append(Callers, [Cur EXCEPT !.entered = TRUE])
  /\ visited' = visited \cup {Cur.decl}
  /\ UNCHANGED << prog, phase, emit >>

EnterContext ==
  /\ Visiting
  /\ ~Cur.entered
  /\ KindOf(Cur.decl) \in {"TranslationUnit", "LinkageSpec"}
  /\ visitors' = Append(Callers, [Cur EXCEPT !.entered = TRUE])
  /\ visited' = visited \cup {Cur.decl}
  /\ UNCHANGED << prog, phase, declarations, free, lists, emit >>

\* WalkUpFromDecl throws SkipUnwrappableDeclaration, which nobody catches.
Terminate ==
  /\ Visiting
  /\ ~Cur.entered
  /\ KindOf(Cur.decl) = "Unhandled"
  /\ phase' = "terminated"
  /\ UNCHANGED << prog, visitors, declarations, free, lists, emit, visited >>

-----------------------------------------------------------------------------
(***************************************************************************)
(* registerDeclaration of the next part, at the top level or not.  The     *)
(* declaration inside an alias template is not registered: the visitor of  *)
(* the template traverses it itself, with its own top_level_decls.         *)
(***************************************************************************)
RegistersTop(v) ==
  \/ KindOf(v.decl) = "TranslationUnit"
  \/ KindOf(v.decl) = "LinkageSpec" /\ v.top

TraversesTop(v, d) ==
  \/ RegistersTop(v)
  \/ KindOf(v.decl) = "AliasTemplate" /\ KindOf(d) = "Typedef" /\ v.top

\* Variant: a redeclaration of something known is skipped.
KnownEntity(d) == Known(d) \/ Known(Canonical(d))

\* TraverseDecl returns at once on a declaration that is in the table.
TraversedBefore(d) == Known(d)

\* Variant: what is known already is not entered in free_declarations.
SkipPartOnly ==
  /\ Visiting
  /\ Cur.entered
  /\ Cur.next < Len(Parts(Cur.decl))
  /\ TraversedBefore(Part)
  /\ visitors' = Append(Callers, CurDone)
  /\ UNCHANGED << prog, phase, declarations, free, lists, emit, visited >>

SkipPart ==
  /\ Visiting
  /\ Cur.entered
  /\ Cur.next < Len(Parts(Cur.decl))
  /\ TraversedBefore(Part)
  /\ free' = IF RegistersTop(Cur) /\ Known(Part)
               THEN free \cup {declarations[Part]} ELSE free
  /\ visitors' = Append(Callers, CurDone)
  /\ UNCHANGED << prog, phase, declarations, lists, emit, visited >>

VisitPart ==
  /\ Visiting
  /\ Cur.entered
  /\ Cur.next < Len(Parts(Cur.decl))
  /\ ~TraversedBefore(Part)
  /\ visitors' = Callers \o << CurDone, NewVisitor(Part, TraversesTop(Cur, Part)) >>
  /\ UNCHANGED << prog, phase, declarations, free, lists, emit, visited >>

\* Variant: the lookup of registerDeclaration is taken to succeed.
EndVisitorUnchecked ==
  /\ Visiting
  /\ Cur.entered
  /\ Cur.next = Len(Parts(Cur.decl))
  /\ free' = IF Cur.top THEN free \cup {declarations[Cur.decl]} ELSE free
  /\ visitors' = Callers
  /\ phase' = IF Callers = << >> THEN "enable" ELSE "traverse"
  /\ UNCHANGED << prog, declarations, lists, emit, visited >>

\* The end of a visitor, and of the registerDeclaration that made it.
EndVisitor ==
  /\ Visiting
  /\ Cur.entered
  /\ Cur.next = Len(Parts(Cur.decl))
  /\ free' = IF Cur.top /\ Known(Cur.decl)
               THEN free \cup {declarations[Cur.decl]} ELSE free
  /\ visitors' = Callers
  /\ phase' = IF Callers = << >> THEN "enable" ELSE "traverse"
  /\ UNCHANGED << prog, declarations, lists, emit, visited >>

-----------------------------------------------------------------------------
(***************************************************************************)
(* enableDeclarationsInFiles and its FilenameVisitor, which leaves out     *)
(* what is implicit and, of types and class templates, what does not       *)
(* define them.                                                            *)
(***************************************************************************)
Tags == {"Record", "Union", "Enum", "SpecializedRecord"} \cup Templates

\* Variant: any declaration of a type will do.
EnablesAny(d) == d \in prog.inFiles /\ d \notin prog.implicit

Enables(d) ==
  /\ d \in prog.inFiles
  /\ d \notin prog.implicit
  /\ KindOf(d) \in Tags => d \in prog.defined

EnableDeclarationsInFiles ==
  /\ phase = "enable"
  /\ emit' = { declarations[d] : d \in { e \in Decl : Known(e) /\ Enables(e) } }
  /\ phase' = "done"
  /\ UNCHANGED << prog, visitors, declarations, free, lists, visited >>

Next ==
  \/ Allocate \/ EnterContext \/ Terminate
  \/ SkipPart \/ VisitPart \/ EndVisitor
  \/ EnableDeclarationsInFiles

Spec == Init /\ [][Next]_vars

-----------------------------------------------------------------------------
\* Variant: objects sort by the definition, where there is one.
LocationOfDefinition(o) ==
  LET defs == { e \in prog.defined : Canonical(e) = Canonical(o) }
  IN  IF defs = {} THEN prog.line[o] ELSE prog.line[CHOOSE e \in defs : TRUE]

(***************************************************************************)
(* What the translation reads of an object: getSourceLocation, by which    *)
(* arrayOfFreeDeclarations sorts, and the declaration whose contents the   *)
(* ranges of children, fields and methods go through.                      *)
(***************************************************************************)
LocationOf(o) == prog.line[o]

\* The comparison of arrayOfFreeDeclarations.
ComesBefore(l, r) ==
  \/ LocationOf(l) = 0
  \/ LocationOf(r) # 0 /\ LocationOf(l) < LocationOf(r)

Defines(e, o) == e \in prog.defined /\ Canonical(e) = Canonical(o)

\* definitionOrThis of a record; anything else reads its _decl.
Reads(o) ==
  IF KindOf(o) \in {"Record", "SpecializedRecord", "RecordTemplate"}
     /\ \E e \in Decl : Defines(e, o)
    THEN CHOOSE e \in Decl : Defines(e, o)
    ELSE o

-----------------------------------------------------------------------------
TypeOK ==
  /\ prog \in Programs
  /\ phase \in {"traverse", "enable", "done", "terminated"}
  /\ visitors \in Seq(Visitor)
  /\ declarations \in [Decl -> Decl \cup {NoDecl}]
  /\ free \subseteq Decl
  /\ lists \in [Decl -> Seq(Decl)]
  /\ emit \subseteq Decl
  /\ visited \subseteq Decl

(***************************************************************************)
(* All redeclarations of an entity have one object, made from one of them, *)
(* whichever is met first, the canonical one among them; so getDeclaration *)
(* finds what a traversal entered, and different entities have different   *)
(* objects.                                                                *)
(***************************************************************************)
OneObject ==
  \A d \in Decl : Known(d) =>
    /\ declarations[Canonical(d)] = declarations[d]
    /\ Canonical(declarations[d]) = Canonical(d)
    /\ declarations[declarations[d]] = declarations[d]

\* The definition of a specialization was its first declaration, and the
\* traversal met a later one before: the definition is known, never visited.
Shadowed(o) ==
  /\ KindOf(o) = "SpecializedRecord"
  /\ Canonical(o) # o
  /\ Canonical(o) \in prog.defined

(***************************************************************************)
(* Whatever the translation reads of an object has been visited, so that   *)
(* no lookup of an argument, field or template argument fails: of a class  *)
(* its definition, of a namespace everything that opens it again, as       *)
(* NamespaceDeclaration::getChildren goes through all of these; and the    *)
(* parameters of a template are looked for in the list of that             *)
(* declaration, too.  The exception is a specialization that is declared   *)
(* again after its definition.                                             *)
(***************************************************************************)
ContentsKnown ==
  phase \in {"enable", "done"} =>
    \A d \in Decl : Known(d) /\ ~Shadowed(declarations[d]) =>
      LET o == declarations[d]
      IN  /\ Reads(o) \in visited
          /\ KindOf(o) \in Templates =>
               \E i \in DOMAIN lists[o] : lists[o][i] = Reads(o)
          /\ KindOf(o) = "Namespace" =>
               \A e \in Decl : Canonical(e) = Canonical(o) /\ prog.parts[e] # << >>
                                => e \in visited

(***************************************************************************)
(* A root declaration is handed to the translation however it was met: as  *)
(* a specialization through its template, or as a redeclaration.           *)
(***************************************************************************)
Root(d) ==
  \E i \in DOMAIN Parts(Unit) :
    \/ d = Parts(Unit)[i]
    \/ /\ KindOf(Parts(Unit)[i]) = "LinkageSpec"
       /\ \E j \in DOMAIN Parts(Parts(Unit)[i]) : d = Parts(Parts(Unit)[i])[j]

RootsAreFree ==
  phase \in {"enable", "done"} =>
    \A d \in Decl : Root(d) /\ Known(d) => declarations[d] \in free

(***************************************************************************)
(* The translation meets an entity that encloses others before it meets    *)
(* those that are free as well, so that members are translated as members. *)
(* The exceptions are a specialization that its template hands out by a    *)
(* declaration after the definition; what a specialization declares that   *)
(* was not visited, if the rest of the source declares it again; and what  *)
(* is declared before the namespace, with C linkage in both places.        *)
(***************************************************************************)
Encloses(o, m) ==
  \E d \in Decl : /\ declarations[d] = o
                  /\ \E i \in DOMAIN Parts(d) :
                       declarations[Parts(d)[i]] = m

MadeLate(o) ==
  /\ KindOf(o) = "SpecializedRecord"
  /\ \E e \in Decl : Defines(e, o) /\ prog.line[e] < prog.line[o]

PassedOver(o) ==
  \E d \in Decl \ visited : \E i \in DOMAIN Parts(d) : Parts(d)[i] = Canonical(o)

DeclaredBefore(o, m) ==
  /\ KindOf(o) = "Namespace"
  /\ KindOf(m) \in {"Function", "Variable"}
  /\ \A n \in Decl : Canonical(n) = Canonical(o) /\ InScope(prog, n) =>
       prog.line[Canonical(m)] < prog.line[n]

EnclosingFirst ==
  phase = "done" =>
    \A o, m \in free :
      Encloses(o, m) /\ ~MadeLate(o) /\ ~PassedOver(o) /\ ~DeclaredBefore(o, m) =>
        ComesBefore(o, m) /\ ~ComesBefore(m, o)

(***************************************************************************)
(* A type is emitted if and only if a file on the command line defines it, *)
(* anything else if one declares it, whichever declaration the object was  *)
(* made from and in whatever order they were met.                          *)
(***************************************************************************)
Met(e) == \E v \in visited : \E i \in DOMAIN Parts(v) : Parts(v)[i] = e

EmittedWhereDefined ==
  phase = "done" =>
    \A d \in Decl : Known(d) =>
      ( declarations[d] \in emit <=>
          \E e \in prog.inFiles \ prog.implicit :
            /\ Canonical(e) = Canonical(d)
            /\ Met(e) \/ e = Canonical(d)
            /\ KindOf(e) \in Tags => e \in prog.defined )

(***************************************************************************)
(* What the design document says, and the code does not do: the members of *)
(* classes, enums and unions are captured, so the translation reads the    *)
(* definition of each of them that is known.                               *)
(***************************************************************************)
MembersCaptured ==
  phase = "done" =>
    \A d, e \in Decl : Known(d) /\ Defines(e, d) => Reads(declarations[d]) = e
=============================================================================
