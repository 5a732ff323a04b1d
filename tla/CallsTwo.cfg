SPECIFICATION Spec
CONSTANTS
    Slots = {"s1", "s2"}
    Methods <- MCMethods
    Users = {"ann", "bob"}
    Owner = "ann"
    Names = {"ann", "bob", "eve"}
    Passwords = {"a", "b", "c"}
    Logins <- MCLogins
    Cookies <- MCCookies
    Password <- MCPassword
    Expired = {"bob"}
INVARIANTS TypeOK EnvClean
PROPERTIES OwnVerdict LoginsAreSomebodys Answered
