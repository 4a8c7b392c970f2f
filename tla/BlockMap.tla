------------------------------ MODULE BlockMap ------------------------------
(***************************************************************************)
(* What a block-mapping translation layer promises, with every request     *)
(* served in one step: requests are answered in order, a logical block is  *)
(* bound to one free physical block of its chip at its first write, the    *)
(* least erased one, and an erase unbinds it and counts.                   *)
(***************************************************************************)
EXTENDS Integers, Sequences

CONSTANTS
  LogBlock,     \* logical blocks, <<segment, chip>>
  Block,        \* physical blocks of one chip
  EraseMod,     \* erase counters wrap here
  Request,      \* records with lpa and op, among others
  Unbound,      \* the binding of a logical block without a physical one
  Dead,         \* the binding of a logical block marked dead
  Target(_),    \* the logical block of a request
  Command(_, _) \* the flash command that serves a request on a block

VARIABLES
  binding,      \* binding[lb]: the physical block of lb, Unbound or Dead
  free,         \* free[c]: the free blocks of chip c
  erases,       \* erases[c][b]: how often b was erased
  todo,         \* requests not served yet
  commands,     \* flash commands issued
  refused       \* requests refused

vars == <<binding, free, erases, todo, commands, refused>>

Submit(r) ==
  /\ todo' = Append(todo, r)
  /\ UNCHANGED <<binding, free, erases, commands, refused>>

Grant(r, b) ==
  /\ commands' = Append(commands, Command(r, b))
  /\ todo' = Tail(todo)
  /\ UNCHANGED refused

Use(r) ==
  /\ r.op \in {"READ_PAGE", "WRITE_PAGE"}
  /\ binding[Target(r)] \in Block
  /\ Grant(r, binding[Target(r)])
  /\ UNCHANGED <<binding, free, erases>>

LeastErased(c) == {b \in free[c] : \A o \in free[c] : erases[c][b] <= erases[c][o]}

Bind(r) ==
  /\ r.op = "WRITE_PAGE"
  /\ binding[Target(r)] = Unbound
  /\ \E b \in LeastErased(Target(r)[2]) :
       /\ binding' = [binding EXCEPT ![Target(r)] = b]
       /\ free' = [free EXCEPT ![Target(r)[2]] = @ \ {b}]
       /\ Grant(r, b)
  /\ UNCHANGED erases

Unbind(r) ==
  /\ r.op = "ERASE_BLOCK"
  /\ binding[Target(r)] \in Block
  /\ LET c == Target(r)[2]
         b == binding[Target(r)]
     IN /\ free' = [free EXCEPT ![c] = @ \cup {b}]
        /\ erases' = [erases EXCEPT ![c][b] = (@ + 1) % EraseMod]
        /\ Grant(r, b)
  /\ binding' = [binding EXCEPT ![Target(r)] = Unbound]

Refuse(r) ==
  /\ \/ binding[Target(r)] = Dead
     \/ binding[Target(r)] = Unbound /\ r.op # "WRITE_PAGE"
     \/ binding[Target(r)] = Unbound /\ free[Target(r)[2]] = {}
  /\ refused' = Append(refused, r)
  /\ todo' = Tail(todo)
  /\ UNCHANGED <<binding, free, erases, commands>>

Serve ==
  /\ todo # <<>>
  /\ \/ Use(Head(todo))
     \/ Bind(Head(todo))
     \/ Unbind(Head(todo))
     \/ Refuse(Head(todo))

TakeCommand ==
  /\ commands # <<>>
  /\ commands' = Tail(commands)
  /\ UNCHANGED <<binding, free, erases, todo, refused>>

TakeRefusal ==
  /\ refused # <<>>
  /\ refused' = Tail(refused)
  /\ UNCHANGED <<binding, free, erases, todo, commands>>

Next == (\E r \in Request : Submit(r)) \/ Serve \/ TakeCommand \/ TakeRefusal

(* No condition on how the tables start: they are uploaded. *)
Init == todo = <<>> /\ commands = <<>> /\ refused = <<>>

Spec == Init /\ [][Next]_vars

FairSpec == Spec /\ WF_vars(Serve)
=============================================================================
