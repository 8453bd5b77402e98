\* One invocation at a time against a server whose workloads another
\* client deletes between its calls; ids of two characters, names of one,
\* --env arguments of up to three characters over {k, =, v}.
CONSTANTS
    Clis = {c1}
    Letters = {"a", "b"}
    IdLen = 2
    MaxArg = 3
    None = none
SPECIFICATION Spec
INVARIANT EnvArgParsed
VIEW IdleView
