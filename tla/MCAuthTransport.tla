-------------------------- MODULE MCAuthTransport --------------------------
EXTENDS AuthTransport

CONSTANTS get, post

\* One request that can be replayed, and one whose body cannot be rewound.
TwoRequests == {get, post}
OneGet == {get}
=============================================================================
