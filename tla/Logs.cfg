\* Logs of up to 5 characters over {a, CR, LF}: every arrangement of line
\* endings, CRLF, bare CR, blank and unterminated lines up to that length,
\* read with every tail up to 4 and with none, before, during and after a
\* youki delete.
CONSTANTS
    MaxLog = 5
    MaxTail = 4
    None = none
SPECIFICATION Spec
PROPERTY TailIsLastLines
\* The log stops growing at its bound or once deleted, and the last fetch
\* has returned: the explored system comes to rest.
CHECK_DEADLOCK FALSE
