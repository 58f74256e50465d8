------------------------------- MODULE MCRetry -------------------------------
\* Small instances of Retry.  The word is 5 bits wide (-16..15), so that the
\* shift overflows within five attempts the way 64 bits do within 34.
EXTENDS Retry
=============================================================================
