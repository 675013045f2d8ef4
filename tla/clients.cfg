CONSTANT Progs = {"ftp", "mail", "dotmail", "pop3", "toolkit", "fulltest"}
CONSTANT MaxBehind = 2
SPECIFICATION FairSpec
INVARIANT TypeOK
INVARIANT SuccessIsReal
PROPERTY OwnReply
PROPERTY Ends
