\* What each source says of one setting with a built-in value and of the flags.
SPECIFICATION ConfigSpec
CONSTANTS
    Unset = Unset
    Given = {"http_host", "require_auth", "tls"}
INVARIANT FirstNonEmptySource
\* main ends.
CHECK_DEADLOCK FALSE
