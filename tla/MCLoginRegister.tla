-------------------------- MODULE MCLoginRegister --------------------------
EXTENDS LoginRegister, TLC

CONSTANTS Often, Once

\* One client tries again and again, the other wants the same account.
Tries == Often :> 3 @@ Once :> 1
=============================================================================
