----------------------------- MODULE MCPipeCall -----------------------------
(* Two invocations of PipeCall, on descriptors 0..10: room for the standard *)
(* streams and for the eight ends that two calls can have open at once.     *)
EXTENDS PipeCall, TLC

MCFd == 0..10

\* A command that copies its input, which is more than a pipe of one chunk
\* holds, so that both sides block; and a command that never reads it.
Cat(fails) == [prog |-> "cat", size |-> 2, fails |-> fails]
Tool(fails) == [prog |-> "tool", size |-> 1, fails |-> fails]
Refused == {"pipe", "fork", "execvp", "command"}
Interrupted == {"read", "write", "waitpid"}
MCJob == {Cat(Refused), Tool(Refused), Cat(Interrupted), Cat({})}

\* Two calls of which each may be refused something, or one whose system calls
\* are interrupted beside one that is left alone.
MCInit ==
  /\ Init
  /\ {job[c].fails : c \in Call} \in {{Refused}, {Interrupted, {}}}
MCSpec == MCInit /\ [][Next]_vars /\ Fairness

Symmetric == Permutations(Call)
=============================================================================
