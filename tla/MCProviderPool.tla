--------------------------- MODULE MCProviderPool ---------------------------
\* A few callers, a bucket of one or two admissions, short cooldowns.
EXTENDS ProviderPool
=============================================================================
