------------------------------- MODULE Loader -------------------------------
(***************************************************************************)
(* The loader of the guest's libraries (nx_elf.c) and the dynamic linking   *)
(* it answers with (my_dlopen and my_dlsym of bionic.c): every library is   *)
(* mapped, then every library is relocated, then their constructors run,    *)
(* libmain's from main and the others' when the guest opens them.           *)
(*                                                                          *)
(* A constructor may open libraries itself, so what runs is a stack: the    *)
(* top is the call of nx_run_init that is going on.  A slot of a            *)
(* relocation, the layout of the image and the hash tables are abstracted   *)
(* to who provides which symbol.                                            *)
(***************************************************************************)
EXTENDS Integers, Sequences, FiniteSets

CONSTANTS
    Libs,      \* the libraries, in the order of LIBS
    Symbols,   \* the names that are looked up
    Host,      \* the symbols of the sorted import table
    Defines,   \* Defines[m]: the symbols library m defines
    Needs,     \* Needs[m]: the symbols the relocations of m name
    OnLoad,    \* the symbol JNI_OnLoad
    Entries,   \* Entries[m]: what each constructor of m opens, in order
    NoLib,     \* a constructor that opens nothing
    NoFn,      \* an entry of the array that is 0 or -1
    Table,     \* the import table as an address provider
    Null       \* no address

Lib == {Libs[i] : i \in 1..Len(Libs)}

\* JNI_OnLoad is a symbol of the guest: "all three libraries export that".
ASSUME LoaderAssumption ==
    /\ Libs \in Seq(Lib) /\ \A i, j \in DOMAIN Libs : Libs[i] = Libs[j] => i = j
    /\ \A m \in Lib : OnLoad \in Defines[m]
    /\ Host \subseteq Symbols /\ OnLoad \in Symbols \ Host
    /\ Defines \in [Lib -> SUBSET Symbols] /\ Needs \in [Lib -> SUBSET Symbols]
    /\ Entries \in [Lib -> Seq(Lib \cup {NoLib, NoFn})]
    /\ {NoLib, NoFn, Table, Null} \cap Lib = {} /\ Null # Table

VARIABLES
    mods,    \* the list of loaded modules, the newest first
    bound,   \* bound[m]: the provider of each symbol m needs, once relocated
    inited,  \* the modules whose nx_run_init has begun
    array,   \* array[m]: the entries of the init array, NULLed as they run
    calls,   \* the calls of nx_run_init going on: [mod, i], the top first
    ran,     \* ran[m][i]: how often constructor i of m was entered
    onloads  \* the libraries whose JNI_OnLoad was called, in order

loader == <<mods, bound, inited, array, calls, ran, onloads>>

LoaderInit ==
    /\ mods = << >>
    /\ bound = << >>
    /\ inited = {}
    /\ array = Entries
    /\ calls = << >>
    /\ ran = [m \in Lib |-> [i \in 1..Len(Entries[m]) |-> 0]]
    /\ onloads = << >>

Loaded == {mods[i] : i \in 1..Len(mods)}

-----------------------------------------------------------------------------
\* The first module of a list that defines s, one in skip excepted, or none.
FirstIn(list, skip, s) ==
    LET here == {i \in 1..Len(list) : list[i] \notin skip /\ s \in Defines[list[i]]}
    IN  IF here = {} THEN Null
        ELSE list[CHOOSE i \in here : \A j \in here : i <= j]

\* Who provides s to m: the host first, then the other modules, then m.
Resolve(m, s) ==
    IF s \in Host THEN Table
    ELSE LET other == FirstIn(mods, {m}, s)
         IN  IF other # Null THEN other ELSE FirstIn(<<m>>, {}, s)

\* A symbol the module defines is bound to it without a lookup.
Apply(m) ==
    [s \in Needs[m] |-> IF s \in Defines[m] THEN m ELSE Resolve(m, s)]

LoadFirst(m) == mods' = <<m>> \o mods
Relocate(list) == bound' = [m \in list |-> Apply(m)]

\* nx_load of the next library: it is mapped and put in front of the list.
Load ==
    /\ Len(mods) < Len(Libs)
    /\ LoadFirst(Libs[Len(mods) + 1])
    /\ UNCHANGED <<bound, inited, array, calls, ran, onloads>>

\* Once all are loaded, nx_relocate goes over them.
RelocateAll ==
    /\ Len(mods) = Len(Libs) /\ bound = << >>
    /\ Relocate(Loaded)
    /\ UNCHANGED <<mods, inited, array, calls, ran, onloads>>

-----------------------------------------------------------------------------
BegunAlways(m, stack) == <<[mod |-> m, i |-> 1]>> \o stack
\* nx_run_init of m begins: a module that has begun once never does again.
Begun(m, stack) == IF m \in inited THEN stack ELSE <<[mod |-> m, i |-> 1]>> \o stack
RunInit(m, stack) ==
    /\ calls' = Begun(m, stack)
    /\ inited' = inited \cup {m}

\* The next entry of the constructors that are running: it is cleared before
\* it is called, and what it opens begins before it returns.
Constructor ==
    /\ calls # << >>
    /\ LET top == Head(calls)
           next == <<[top EXCEPT !.i = @ + 1]>> \o Tail(calls)
       IN  /\ top.i <= Len(array[top.mod])
           /\ LET f == array[top.mod][top.i]
              IN  /\ array' = IF f = NoFn THEN array ELSE [array EXCEPT ![top.mod][top.i] = NoFn]
                  /\ ran' = IF f = NoFn THEN ran ELSE [ran EXCEPT ![top.mod][top.i] = @ + 1]
                  /\ IF f \in {NoFn, NoLib}
                     THEN calls' = next /\ UNCHANGED inited
                     ELSE RunInit(f, next)
    /\ UNCHANGED <<mods, bound, onloads>>

\* The array is done: the call returns to whoever opened the library.
Constructed ==
    /\ calls # << >> /\ Head(calls).i > Len(array[Head(calls).mod])
    /\ calls' = Tail(calls)
    /\ UNCHANGED <<mods, bound, inited, array, ran, onloads>>

\* main runs libmain's constructors, the guest's dlopen those of the others.
Open(m) ==
    /\ calls = << >> /\ bound # << >>
    /\ RunInit(m, << >>)
    /\ UNCHANGED <<mods, bound, array, ran, onloads>>

\* dlsym on the handle of m: the module itself, then the host, then everyone.
Sym(m, s) ==
    IF s \in Defines[m] THEN m
    ELSE IF s \in Host THEN Table
    ELSE FirstIn(mods, {}, s)

\* The JNI_OnLoad that a lookup on m finds is called.
CallOnLoad(m) ==
    /\ calls = << >> /\ m \in inited
    /\ Sym(m, OnLoad) # Null
    /\ onloads' = Append(onloads, Sym(m, OnLoad))
    /\ UNCHANGED <<mods, bound, inited, array, calls, ran>>

-----------------------------------------------------------------------------
(***************************************************************************)
(* Every library is relocated against all of them, in whatever order they   *)
(* are listed: a slot is left without an address only when no library and   *)
(* not the host provides its symbol, and what a library defines it uses     *)
(* itself (st_load_modules, apply and resolve).                             *)
(***************************************************************************)
BoundRight ==
    \A m \in DOMAIN bound : \A s \in Needs[m] :
        /\ bound[m][s] = Null <=> s \notin Host /\ \A x \in Lib : s \notin Defines[x]
        /\ s \in Defines[m] => bound[m][s] = m
        /\ bound[m][s] \in Lib => s \in Defines[bound[m][s]]

(***************************************************************************)
(* However the constructors open each other's libraries, each runs at most  *)
(* once and after the relocations, no library is constructed inside its own *)
(* construction, and JNI_OnLoad is called once per library, its own, after  *)
(* all its constructors (nx_run_init, my_dlopen and my_dlsym).              *)
(***************************************************************************)
ConstructedOnce ==
    /\ \A m \in Lib : \A i \in DOMAIN ran[m] : ran[m][i] <= 1
    /\ \A m \in Lib, i \in DOMAIN calls, j \in DOMAIN calls :
            calls[i].mod = m /\ calls[j].mod = m => i = j
    /\ inited # {} => DOMAIN bound = Lib
    /\ \A i \in DOMAIN onloads :
            /\ \A j \in DOMAIN onloads : onloads[i] = onloads[j] => i = j
            /\ \A k \in DOMAIN ran[onloads[i]] :
                    Entries[onloads[i]][k] # NoFn => ran[onloads[i]][k] = 1

LinkedRight == BoundRight /\ ConstructedOnce
=============================================================================
