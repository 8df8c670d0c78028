------------------------------ MODULE MCBridge ------------------------------
EXTENDS Bridge

\* A user who sends what the contract sends, and an account of the contract's
\* name on another chain.
MCRefused ==
    {[op |-> "recv", sender |-> s, channel |-> s \in User, token |-> k, to |-> u,
      amount |-> a, packet |-> 0] :
        s \in User \cup {Contract}, k \in Token, u \in User, a \in Amounts}

\* Bound: the first transaction enables a token.
Focus == chain # <<>> => chain[1].op = "enable"
=============================================================================
