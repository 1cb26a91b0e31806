----------------------------- MODULE MCTcpServer -----------------------------
\* Two connections, the second under the number of the first or under its own, on
\* one IO thread or on two; the accept loop and the first connection use up the
\* pool, unless it gets one back.
EXTENDS TcpServer

\* The descriptors are alike: it is enough to give the first connection this one.
FirstFd == accepted > 0 => fdOf[1] = 7
=============================================================================
