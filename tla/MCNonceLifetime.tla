---- MODULE MCNonceLifetime ----
\* The model-checking instance of NonceLifetime.
EXTENDS NonceLifetime
====
